---- MODULE Spec2Model ----
(***************************************************************************)
(* A model of hfsapi's HFSClient (src/hfsapi/client.py): the session       *)
(* manager (_get_client / close / login), the upload operation with its    *)
(* 404 retry, the transfer body builder, the directory walker and the      *)
(* uploaded-file URL resolver.                                             *)
(*                                                                         *)
(* Strings are sequences of one-character strings.  The characters "U" and  *)
(* "V" stand for two non-ASCII characters (UTF-8 bytes E4 BD A0, E5 A5 BD). *)
(***************************************************************************)
EXTENDS Integers, Sequences, FiniteSets, TLC

\* Python's None where a string may stand (no string of the model is <<"None">>).
None == <<"None">>
\* No exception; no boolean result.
NoExc == "None"
NoBool == "None"
\* self._client = None: handles are numbered from 1.
NoClient == 0

\* ------------------------------------------------------------------ bounds
\* Number of connection handles one session may construct in a run.
MaxHandles == 2
\* Largest byte source (bytes) and largest chunk size a transfer is built with.
MaxSize == 4
MaxChunk == 3
\* Most files under a walked local root.
MaxFiles == 2
\* Most entries in a directory listing.
MaxEntries == 3

\* ----------------------------------------------------------- text helpers
Min(a, b) == IF a < b THEN a ELSE b

RECURSIVE LStrip(_)
\* str.lstrip("/")
LStrip(s) == IF s # <<>> /\ Head(s) = "/" THEN LStrip(Tail(s)) ELSE s

RECURSIVE RStrip(_)
\* str.rstrip("/")
RStrip(s) ==
    IF s # <<>> /\ s[Len(s)] = "/" THEN RStrip(SubSeq(s, 1, Len(s) - 1)) ELSE s

\* str.strip("/")
Strip(s) == RStrip(LStrip(s))

RECURSIVE ReplaceDoubleSlash(_)
\* str.replace("//", "/"): one left-to-right pass over non-overlapping matches
ReplaceDoubleSlash(s) ==
    IF Len(s) < 2 THEN s
    ELSE IF s[1] = "/" /\ s[2] = "/"
         THEN <<"/">> \o ReplaceDoubleSlash(SubSeq(s, 3, Len(s)))
         ELSE <<s[1]>> \o ReplaceDoubleSlash(Tail(s))

RECURSIVE SplitSlash(_)
\* str.split("/"): a sequence of segments, empty segments kept
SplitSlash(s) ==
    IF \A i \in 1..Len(s) : s[i] # "/" THEN <<s>>
    ELSE LET i == CHOOSE k \in 1..Len(s) :
                      s[k] = "/" /\ \A j \in 1..(k - 1) : s[j] # "/"
         IN <<SubSeq(s, 1, i - 1)>> \o SplitSlash(SubSeq(s, i + 1, Len(s)))

RECURSIVE JoinSlash(_)
\* "/".join(segments)
JoinSlash(segs) ==
    IF segs = <<>> THEN <<>>
    ELSE IF Len(segs) = 1 THEN segs[1]
    ELSE segs[1] \o <<"/">> \o JoinSlash(Tail(segs))

\* The characters urllib.parse.quote never encodes (letters, digits, "_.-~").
Unreserved == {"a", "d", "e", "f", "g", "k", "p", "s", "t", "x", "0", "1", "2", "9", ".", "-", "_"}

\* A quote that escapes non-ASCII characters only.
QuoteChar_KeepsAscii(c) ==
    CASE c = "U" -> <<"%", "E", "4", "%", "B", "D", "%", "A", "0">>
      [] c = "V" -> <<"%", "E", "5", "%", "A", "5", "%", "B", "D">>
      [] OTHER   -> <<c>>

\* quote(c, safe="") of one character: itself when unreserved, else the
\* %XX escapes of its UTF-8 bytes.
QuoteChar(c) ==
    IF c \in Unreserved THEN <<c>>
    ELSE CASE c = " " -> <<"%", "2", "0">>
           [] c = "(" -> <<"%", "2", "8">>
           [] c = ")" -> <<"%", "2", "9">>
           [] c = "/" -> <<"%", "2", "F">>
           [] c = "%" -> <<"%", "2", "5">>
           [] c = "!" -> <<"%", "2", "1">>
           [] c = ":" -> <<"%", "3", "A">>
           [] c = ";" -> <<"%", "3", "B">>
           [] c = "#" -> <<"%", "2", "3">>
           [] c = "U" -> <<"%", "E", "4", "%", "B", "D", "%", "A", "0">>
           [] c = "V" -> <<"%", "E", "5", "%", "A", "5", "%", "B", "D">>
           [] OTHER   -> <<"%", "3", "F">>

RECURSIVE Quote(_)
\* urllib.parse.quote(seg, safe="")
Quote(seg) == IF seg = <<>> THEN <<>> ELSE QuoteChar(Head(seg)) \o Quote(Tail(seg))

RECURSIVE QuoteAll(_)
QuoteAll(segs) ==
    IF segs = <<>> THEN <<>> ELSE <<Quote(Head(segs))>> \o QuoteAll(Tail(segs))

\* _path_for_url(path)
_path_for_url(path) ==
    LET segments == IF Strip(path) # <<>> THEN SplitSlash(Strip(path)) ELSE <<>>
    IN  IF segments # <<>> THEN <<"/">> \o JoinSlash(QuoteAll(segments)) ELSE <<"/">>

\* urllib.parse.quote_plus of one character (what urlencode applies to values)
QuotePlusChar(c) == IF c = " " THEN <<"+">> ELSE QuoteChar(c)

RECURSIVE QuotePlus(_)
QuotePlus(v) ==
    IF v = <<>> THEN <<>> ELSE QuotePlusChar(Head(v)) \o QuotePlus(Tail(v))

\* urlencode({key: value}) for a one-entry dict
urlencode(key, value) == key \o <<"=">> \o QuotePlus(value)

\* ------------------------------------------------------------ the network
\* What one request can end in: a response with a status, or an exception of
\* the transport (connect error, timeout).
Statuses == {200, 201, 404, 500}
Resp(s) == [raised |-> FALSE, status |-> s]
Exc == [raised |-> TRUE, status |-> 0]
Outcomes == {Resp(s) : s \in Statuses} \cup {Exc}

\* The outcomes tried for a request of which the code looks at most at success:
\* a success, an error status, an exception.
IgnoredOutcomes == {Resp(200), Resp(500), Exc}

\* A test that takes any response for a success.
is_success_AnyResponse(s) == TRUE

\* httpx.Response.is_success
is_success(s) == 200 <= s /\ s <= 299

\* HFS_ANTI_CSRF_HEADER
HFS_ANTI_CSRF_HEADER == "x-hfs-anti-csrf"

\* HFSClient._post_headers
_post_headers == {HFS_ANTI_CSRF_HEADER}

\* ----------------------------------------------------------------- state
VARIABLES
    username,    \* HFSClient.username: None or a string
    password,    \* HFSClient.password: None or a string
    _client,     \* HFSClient._client: None or the cached handle (its number)
    opened,      \* how many httpx.Client handles the session has constructed
    is_closed,   \* httpx.Client.is_closed of every handle constructed so far
    args,        \* the folder and file name the run's calls are made with
    last         \* the last call on the session: requests sent, result

sessVars == <<username, password, _client, opened, is_closed, args, last>>

\* One element of last.trace: a handle being constructed ...
OpenEv(h) ==
    [ev |-> "open", h |-> h, method |-> "", abs |-> FALSE, path |-> <<>>,
     query |-> <<>>, headers |-> {}, out |-> Resp(0)]

\* ... or a request sent on a handle, with what came of it.  abs: the URL was
\* given in full (base_url included) rather than relative to the handle's base.
Req(h, method, abs, path, query, headers, out) ==
    [ev |-> "req", h |-> h, method |-> method, abs |-> abs, path |-> path,
     query |-> query, headers |-> headers, out |-> out]

\* f"?{urlencode({'login': f'{username}:{password}'})}" without the "?"
LoginQuery == urlencode(<<"l", "o", "g", "i", "n">>, username \o <<":">> \o password)

RECURSIVE UntilRaise(_)
\* Statements run in sequence; the first request that raises ends the call.
UntilRaise(evs) ==
    IF evs = <<>> THEN <<>>
    ELSE IF Head(evs).out.raised THEN <<Head(evs)>>
    ELSE <<Head(evs)>> \o UntilRaise(Tail(evs))

Raised(trace) == trace # <<>> /\ trace[Len(trace)].out.raised

\* A _get_client that logs in on the session's first handle only.
_get_client_LoginOnce(login_out) ==
    IF _client = NoClient \/ is_closed[_client]
    THEN LET h == opened + 1
             sends == username # None /\ password # None /\ opened = 0
         IN  [client |-> h, h |-> h, opened |-> h,
              is_closed |-> [x \in 1..h |-> IF x = h THEN FALSE ELSE is_closed[x]],
              trace |-> <<OpenEv(h)>> \o
                        (IF sends
                         THEN <<Req(h, "GET", FALSE, <<"/">>, LoginQuery, {}, login_out)>>
                         ELSE <<>>),
              raised |-> sends /\ login_out.raised]
    ELSE [client |-> _client, h |-> _client, opened |-> opened,
          is_closed |-> is_closed, trace |-> <<>>, raised |-> FALSE]

\* A _get_client that caches the new handle only once the login has returned.
_get_client_CachesAfterLogin(login_out) ==
    IF _client = NoClient \/ is_closed[_client]
    THEN LET h == opened + 1
             sends == username # None /\ password # None
         IN  [client |-> IF sends /\ login_out.raised THEN _client ELSE h,
              h |-> h, opened |-> h,
              is_closed |-> [x \in 1..h |-> IF x = h THEN FALSE ELSE is_closed[x]],
              trace |-> <<OpenEv(h)>> \o
                        (IF sends
                         THEN <<Req(h, "GET", FALSE, <<"/">>, LoginQuery, {}, login_out)>>
                         ELSE <<>>),
              raised |-> sends /\ login_out.raised]
    ELSE [client |-> _client, h |-> _client, opened |-> opened,
          is_closed |-> is_closed, trace |-> <<>>, raised |-> FALSE]

\* A _get_client that logs in as soon as a username is configured.
_get_client_LoginWithoutPassword(login_out) ==
    IF _client = NoClient \/ is_closed[_client]
    THEN LET h == opened + 1
             sends == username # None
         IN  [client |-> h, h |-> h, opened |-> h,
              is_closed |-> [x \in 1..h |-> IF x = h THEN FALSE ELSE is_closed[x]],
              trace |-> <<OpenEv(h)>> \o
                        (IF sends
                         THEN <<Req(h, "GET", FALSE, <<"/">>, LoginQuery, {}, login_out)>>
                         ELSE <<>>),
              raised |-> sends /\ login_out.raised]
    ELSE [client |-> _client, h |-> _client, opened |-> opened,
          is_closed |-> is_closed, trace |-> <<>>, raised |-> FALSE]

\* HFSClient._get_client, the automatic login request ending in login_out.
\* client: self._client after the call; h: the handle the call works on;
\* raised: the call raised (the login request did).
_get_client(login_out) ==
    IF _client = NoClient \/ is_closed[_client]
    THEN LET h == opened + 1
             sends == username # None /\ password # None
         IN  [client |-> h, h |-> h, opened |-> h,
              is_closed |-> [x \in 1..h |-> IF x = h THEN FALSE ELSE is_closed[x]],
              trace |-> <<OpenEv(h)>> \o
                        (IF sends
                         THEN <<Req(h, "GET", FALSE, <<"/">>, LoginQuery, {}, login_out)>>
                         ELSE <<>>),
              raised |-> sends /\ login_out.raised]
    ELSE [client |-> _client, h |-> _client, opened |-> opened,
          is_closed |-> is_closed, trace |-> <<>>, raised |-> FALSE]

\* The outcomes to try for the automatic login of the next _get_client call:
\* one stand-in when no login request will be sent.
SendsLogin ==
    (_client = NoClient \/ is_closed[_client]) /\ username # None /\ password # None
LoginOutcomes == IF SendsLogin THEN IgnoredOutcomes ELSE {Resp(200)}
\* The outcomes to try for a request made after the request that ended in o,
\* when the request is made at all (made): one stand-in when it is not.
After(o, made, outs) == IF ~o.raised /\ made THEN outs ELSE {Resp(200)}

\* A call can be made when it needs no new handle or one may still be built.
CanConnect == (_client # NoClient /\ ~is_closed[_client]) \/ opened < MaxHandles

\* The record kept of a call.
Call(op, use_put, gc_raised, trace, exc, ret_status, ret_bool) ==
    [op |-> op, after_close |-> last.op = "close", had_client |-> _client # NoClient,
     use_put |-> use_put, gc_raised |-> gc_raised, trace |-> trace, exc |-> exc, ret_status |-> ret_status, ret_bool |-> ret_bool]

NoArgs == [folder |-> <<>>, filename |-> <<>>]

SessionInit ==
    /\ username \in {None, <<"a">>}
    /\ password \in {None, <<"x">>}
    /\ (username = None => password = None)
    /\ _client = NoClient
    /\ opened = 0
    /\ is_closed = <<>>
    /\ last = [op |-> "init", after_close |-> FALSE, had_client |-> FALSE,
               use_put |-> FALSE, gc_raised |-> FALSE, trace |-> <<>>, exc |-> NoExc, ret_status |-> 0, ret_bool |-> NoBool]

\* A close that closes the handle and keeps it cached.
close_KeepsHandle ==
    /\ IF _client # NoClient /\ ~is_closed[_client]
       THEN /\ is_closed' = [is_closed EXCEPT ![_client] = TRUE]
            /\ _client' = _client
       ELSE UNCHANGED <<_client, is_closed>>
    /\ last' = Call("close", FALSE, FALSE, <<>>, NoExc, 0, NoBool)
    /\ UNCHANGED <<username, password, opened, args>>

\* HFSClient.close
close ==
    /\ IF _client # NoClient /\ ~is_closed[_client]
       THEN /\ is_closed' = [is_closed EXCEPT ![_client] = TRUE]
            /\ _client' = NoClient
       ELSE UNCHANGED <<_client, is_closed>>
    /\ last' = Call("close", FALSE, FALSE, <<>>, NoExc, 0, NoBool)
    /\ UNCHANGED <<username, password, opened, args>>

\* The session after a call that went through _get_client with result g.
Connected(g) ==
    /\ _client' = g.client
    /\ opened' = g.opened
    /\ is_closed' = g.is_closed
    /\ UNCHANGED <<username, password, args>>

\* HFSClient.login; o1: the automatic login's outcome, o2: this request's.
login(o1, o2) ==
    IF username = None \/ password = None
    THEN /\ last' = Call("login", FALSE, FALSE, <<>>, NoExc, 0, "False")
         /\ UNCHANGED <<username, password, _client, opened, is_closed, args>>
    ELSE /\ CanConnect
         /\ LET g == _get_client(o1)
                trace == UntilRaise(g.trace \o
                             <<Req(g.h, "GET", TRUE, <<"/">>, LoginQuery, {}, o2)>>)
            IN  /\ Connected(g)
                /\ last' = Call("login", FALSE, g.raised, trace, NoExc, 0,
                                IF Raised(trace) THEN "False"
                                ELSE IF is_success(o2.status) THEN "True" ELSE "False")

\* The exception a call ends with when its last request raised.
ExcOf(trace) == IF Raised(trace) THEN "ConnectError" ELSE NoExc

\* The status of the last response of a call (0 when it raised or sent nothing).
StatusOf(trace) ==
    IF trace = <<>> \/ Raised(trace) \/ trace[Len(trace)].ev # "req" THEN 0
    ELSE trace[Len(trace)].out.status

\* put_params of upload_folder and create_folder: {"resume": "0!"}
ResumeParams == urlencode(<<"r", "e", "s", "u", "m", "e">>, <<"0", "!">>)

\* The header names _upload_body_and_headers returns.
UploadHeaders == _post_headers \cup {"Referer", "Content-Length"}

\* A retry test that looks at the folder as given, not stripped.
RetriesAtRoot_RawFolder(status, fld) == status = 404 /\ args.folder # <<>>

\* upload_file's test for the retry: r.status_code == 404 and folder, folder
\* being the stripped folder.
RetriesAtRoot(status, fld) == status = 404 /\ fld # <<>>

\* upload_file's url_rel, without the query: f"/{filename}"
url_rel(filename) == <<"/">> \o filename

\* An upload_file whose form-encoded mode, too, tries the server root after a
\* 404.
upload_file_RetriesPost(folder, filename, use_put, put_params, use_session_for_put, o) ==
    LET fld == Strip(folder)
    IN  IF use_put /\ filename = <<>>
        THEN [client |-> _client, opened |-> opened, is_closed |-> is_closed,
              gc_raised |-> FALSE, trace |-> <<>>, exc |-> "ValueError",
              ret_status |-> 0]
        ELSE
        LET g == _get_client(o[1])
            path == IF fld # <<>>
                    THEN ReplaceDoubleSlash(fld \o <<"/">> \o filename)
                    ELSE filename
            url == _path_for_url(path)
            sess == IF use_session_for_put /\ fld # <<>>
                    THEN <<Req(g.h, "GET", FALSE, _path_for_url(fld) \o <<"/">>,
                               <<>>, {}, o[2])>>
                    ELSE <<>>
            put1 == Req(g.h, "PUT", FALSE, url, put_params, UploadHeaders, o[3])
            put2 == IF RetriesAtRoot(o[3].status, fld)
                    THEN <<Req(g.h, "PUT", FALSE, url_rel(filename), put_params,
                               UploadHeaders, o[4])>>
                    ELSE <<>>
            post == Req(g.h, "POST", TRUE,
                        IF fld # <<>> THEN _path_for_url(fld) ELSE <<>>,
                        <<>>, _post_headers, o[2])
            post2 == IF RetriesAtRoot(o[2].status, fld)
                     THEN <<Req(g.h, "POST", TRUE, <<>>, <<>>, _post_headers, o[2])>>
                     ELSE <<>>
            trace == UntilRaise(g.trace \o
                        (IF use_put THEN sess \o <<put1>> \o put2
                         ELSE <<post>> \o post2))
        IN  [client |-> g.client, opened |-> g.opened, is_closed |-> g.is_closed,
             gc_raised |-> g.raised, trace |-> trace, exc |-> ExcOf(trace),
             ret_status |-> StatusOf(trace)]

\* HFSClient.upload_file.  filename <<>> stands for None or "" (the code tests
\* `not filename`); put_params is <<>> (None) or an encoded query; o[1..4] are
\* the outcomes of the automatic login, the session GET and the two PUTs (or
\* o[1], o[2] of the login and the POST).  The result: the session after the
\* call, the requests sent, the exception raised, the status returned.
upload_file(folder, filename, use_put, put_params, use_session_for_put, o) ==
    LET fld == Strip(folder)
    IN  IF use_put /\ filename = <<>>
        THEN [client |-> _client, opened |-> opened, is_closed |-> is_closed,
              gc_raised |-> FALSE, trace |-> <<>>, exc |-> "ValueError",
              ret_status |-> 0]
        ELSE
        LET g == _get_client(o[1])
            path == IF fld # <<>>
                    THEN ReplaceDoubleSlash(fld \o <<"/">> \o filename)
                    ELSE filename
            url == _path_for_url(path)
            sess == IF use_session_for_put /\ fld # <<>>
                    THEN <<Req(g.h, "GET", FALSE, _path_for_url(fld) \o <<"/">>,
                               <<>>, {}, o[2])>>
                    ELSE <<>>
            put1 == Req(g.h, "PUT", FALSE, url, put_params, UploadHeaders, o[3])
            put2 == IF RetriesAtRoot(o[3].status, fld)
                    THEN <<Req(g.h, "PUT", FALSE, url_rel(filename), put_params,
                               UploadHeaders, o[4])>>
                    ELSE <<>>
            post == Req(g.h, "POST", TRUE,
                        IF fld # <<>> THEN _path_for_url(fld) ELSE <<>>,
                        <<>>, _post_headers, o[2])
            trace == UntilRaise(g.trace \o
                        (IF use_put THEN sess \o <<put1>> \o put2 ELSE <<post>>))
        IN  [client |-> g.client, opened |-> g.opened, is_closed |-> g.is_closed,
             gc_raised |-> g.raised, trace |-> trace, exc |-> ExcOf(trace),
             ret_status |-> StatusOf(trace)]

\* The folders and file names calls are made with.
CallArgs ==
    {[folder |-> <<"/">>, filename |-> <<"f">>],
     [folder |-> <<"d">>, filename |-> <<"f">>],
     [folder |-> <<"d">>, filename |-> <<>>],
     [folder |-> <<"/", "d", "/">>, filename |-> <<"s", "/", "f">>],
     [folder |-> <<"d">>, filename |-> <<"U">>],
     [folder |-> <<>>, filename |-> <<"s", "/", "/", "f">>]}
\* How upload_file is called: form-encoded; direct-write as a caller of the
\* library does; direct-write as upload_folder and create_folder do.
UploadModes ==
    {[use_put |-> FALSE, put_params |-> <<>>, use_session_for_put |-> FALSE],
     [use_put |-> TRUE, put_params |-> <<>>, use_session_for_put |-> FALSE],
     [use_put |-> TRUE, put_params |-> ResumeParams, use_session_for_put |-> TRUE]}

\* The outcomes to try for the four requests of an upload_file call.
UploadOutcomes(folder, use_put, use_session_for_put) ==
    LET fld == Strip(folder) # <<>>
    IN  UNION {
          UNION {
            UNION {
              { <<a, b, c, d>> :
                  d \in After(c, use_put /\ c.status >= 400, Outcomes) } :
              c \in After(b, use_put, Outcomes) } :
            b \in After(a, ~use_put \/ (use_session_for_put /\ fld),
                        IF use_put THEN IgnoredOutcomes ELSE Outcomes) } :
          a \in LoginOutcomes }

\* A call of upload_file on the session.
UploadFile(folder, filename, use_put, put_params, use_session_for_put, o) ==
    /\ (use_put /\ filename = <<>>) \/ CanConnect
    /\ \E r \in {upload_file(folder, filename, use_put, put_params,
                             use_session_for_put, o)} :
           /\ _client' = r.client
           /\ opened' = r.opened
           /\ is_closed' = r.is_closed
           /\ last' = Call("upload_file", use_put, r.gc_raised, r.trace,
                           r.exc, r.ret_status, NoBool)
    /\ UNCHANGED <<username, password, args>>

\* "/~/api/<name>"
ApiPath(name) == <<"/", "~", "/", "a", "p", "i", "/">> \o name

\* HFSClient.get_file_list: one GET, then raise_for_status and r.json().
\* The result: _get_client's, the requests sent, and the exception raised.
get_file_list(o1, o2) ==
    LET g == _get_client(o1)
        trace == UntilRaise(g.trace \o
                     <<Req(g.h, "GET", TRUE, ApiPath(<<"g", "e", "t", "_", "f", "i", "l", "e", "_", "l", "i", "s", "t">>),
                           <<>>, {}, o2)>>)
    IN  [g |-> g, trace |-> trace,
         exc |-> IF Raised(trace) THEN "ConnectError"
                 ELSE IF ~is_success(o2.status) THEN "HTTPStatusError"
                 ELSE NoExc]

\* A call of get_file_list on the session.
GetFileList(o1, o2) ==
    /\ CanConnect
    /\ \E r \in {get_file_list(o1, o2)} :
           /\ Connected(r.g)
           /\ last' = Call("get_file_list", FALSE, r.g.raised, r.trace, r.exc,
                           0, NoBool)

\* HFSClient.delete_file
delete_file(folder, filename, o1, o2) ==
    /\ CanConnect
    /\ LET g == _get_client(o1)
           fld == Strip(folder)
           path == IF fld # <<>>
                   THEN ReplaceDoubleSlash(fld \o <<"/">> \o filename)
                   ELSE filename
           url == IF path # <<>> THEN <<"/">> \o path ELSE <<"/">>
           trace == UntilRaise(g.trace \o
                        <<Req(g.h, "DELETE", FALSE, url, <<>>, {}, o2)>>)
       IN  /\ Connected(g)
           /\ last' = Call("delete_file", FALSE, g.raised, trace,
                           ExcOf(trace), StatusOf(trace), NoBool)

\* HFSClient.set_config
set_config(o1, o2) ==
    /\ CanConnect
    /\ LET g == _get_client(o1)
           trace == UntilRaise(g.trace \o
                        <<Req(g.h, "POST", TRUE, ApiPath(<<"s", "e", "t", "_", "c", "o", "n", "f", "i", "g">>),
                              <<>>, _post_headers, o2)>>)
       IN  /\ Connected(g)
           /\ last' = Call("set_config", FALSE, g.raised, trace,
                           ExcOf(trace), StatusOf(trace), NoBool)

\* ------------------------------------------------- transfer body builder
VARIABLES
    UPLOAD_CHUNK_SIZE,  \* HFSClient.UPLOAD_CHUNK_SIZE, in bytes
    file_content,       \* the byte source: bytes, or a stream with a position
    on_progress,        \* whether a progress callback was given
    body,               \* what _upload_body_and_headers returned as the body
    headers,            \* ... and as the headers (Content-Length; -1: not built)
    gen,                \* the stream_chunks generator: position, sent
    events,             \* callbacks, reads and yields, in the order they happen
    yielded             \* bytes the body has handed to the transport so far

bodyVars == <<UPLOAD_CHUNK_SIZE, file_content, on_progress, body, headers, gen,
              events, yielded>>

\* The byte sources: a bytes object of `size` bytes, or a stream over `size`
\* bytes standing at `pos`.  seek_fails = k > 0: the k-th of the three
\* positioning calls of the sizing (seek(0, 2), tell(), seek(0)) raises OSError;
\* 0: the stream can seek.
Sources ==
    {[kind |-> "bytes", size |-> n, pos |-> 0, seek_fails |-> 0] : n \in 0..MaxSize}
    \cup
    {[kind |-> "stream", size |-> n, pos |-> p, seek_fails |-> k] :
        n \in 0..MaxSize, p \in 0..MaxSize, k \in 0..3}

\* file_content.read(n) of a buffered binary stream: the bytes left, at most n.
ReadLen(fc, n) == Min(n, fc.size - fc.pos)

\* file_content.read(): everything from the position to the end.
ReadAllLen(fc) == fc.size - fc.pos

\* A sizing that leaves out the final seek(0).
SizeBySeek_NoRewind(fc) ==
    CASE fc.seek_fails = 1 -> [ok |-> FALSE, size |-> 0, pos |-> fc.pos]
      [] fc.seek_fails = 2 -> [ok |-> FALSE, size |-> 0, pos |-> fc.size]
      [] OTHER             -> [ok |-> TRUE, size |-> fc.size, pos |-> fc.size]

\* The try block of _upload_body_and_headers: seek(0, 2); tell(); seek(0).
\* ok: none of them raised; size: what tell() gave; pos: where the stream stands.
SizeBySeek(fc) ==
    CASE fc.seek_fails = 1 -> [ok |-> FALSE, size |-> 0, pos |-> fc.pos]
      [] fc.seek_fails = 2 -> [ok |-> FALSE, size |-> 0, pos |-> fc.size]
      [] fc.seek_fails = 3 -> [ok |-> FALSE, size |-> fc.size, pos |-> fc.size]
      [] OTHER             -> [ok |-> TRUE, size |-> fc.size, pos |-> 0]

\* HFSClient._upload_body_and_headers: the body (bytes of a length, or the
\* chunk iterator over a stream of `size` bytes), the Content-Length header,
\* is_stream, and the source as the call leaves it.
_upload_body_and_headers(fc) ==
    IF fc.kind = "bytes"
    THEN [body |-> [kind |-> "bytes", len |-> fc.size, size |-> 0],
          content_length |-> fc.size, is_stream |-> FALSE, fc |-> fc]
    ELSE LET t == SizeBySeek(fc)
             at == [fc EXCEPT !.pos = t.pos]
         IN  IF ~t.ok
             THEN [body |-> [kind |-> "bytes", len |-> ReadAllLen(at), size |-> 0],
                   content_length |-> ReadAllLen(at), is_stream |-> FALSE,
                   fc |-> [at EXCEPT !.pos = at.size]]
             ELSE [body |-> [kind |-> "iter", len |-> 0, size |-> t.size],
                   content_length |-> t.size, is_stream |-> TRUE, fc |-> at]

\* A generator that reports before it counts the chunk just read.
stream_chunks_ReportsEarly(g, fc, cb, size) ==
    LET first == IF g.pc = "created" /\ cb THEN << <<"cb", 0, size>> >> ELSE <<>>
        n == ReadLen(fc, UPLOAD_CHUNK_SIZE)
        sent == g.sent + n
    IN  IF n = 0
        THEN [gen |-> [pc |-> "done", sent |-> g.sent], fc |-> fc,
              events |-> first \o << <<"read", 0, 0>> >>, chunk |-> 0]
        ELSE [gen |-> [pc |-> "suspended", sent |-> sent],
              fc |-> [fc EXCEPT !.pos = fc.pos + n],
              events |-> first \o << <<"read", n, 0>> >> \o
                         (IF cb THEN << <<"cb", g.sent, size>> >> ELSE <<>>) \o
                         << <<"yield", n, 0>> >>,
              chunk |-> n]

\* A generator without the report of (0, size) before its first read.
stream_chunks_NoInitialReport(g, fc, cb, size) ==
    LET n == ReadLen(fc, UPLOAD_CHUNK_SIZE)
        sent == g.sent + n
    IN  IF n = 0
        THEN [gen |-> [pc |-> "done", sent |-> g.sent], fc |-> fc,
              events |-> << <<"read", 0, 0>> >>, chunk |-> 0]
        ELSE [gen |-> [pc |-> "suspended", sent |-> sent],
              fc |-> [fc EXCEPT !.pos = fc.pos + n],
              events |-> << <<"read", n, 0>> >> \o
                         (IF cb THEN << <<"cb", sent, size>> >> ELSE <<>>) \o
                         << <<"yield", n, 0>> >>,
              chunk |-> n]

\* One resumption of the stream_chunks generator g over the source fc, with
\* the callback given or not (cb): from its start or from its last yield up to
\* its next yield or its end.  The result: the generator, the source, what
\* happened in order, and the bytes yielded (0 at the end).
stream_chunks(g, fc, cb, size) ==
    LET first == IF g.pc = "created" /\ cb THEN << <<"cb", 0, size>> >> ELSE <<>>
        n == ReadLen(fc, UPLOAD_CHUNK_SIZE)
        sent == g.sent + n
    IN  IF n = 0
        THEN [gen |-> [pc |-> "done", sent |-> g.sent], fc |-> fc,
              events |-> first \o << <<"read", 0, 0>> >>, chunk |-> 0]
        ELSE [gen |-> [pc |-> "suspended", sent |-> sent],
              fc |-> [fc EXCEPT !.pos = fc.pos + n],
              events |-> first \o << <<"read", n, 0>> >> \o
                         (IF cb THEN << <<"cb", sent, size>> >> ELSE <<>>) \o
                         << <<"yield", n, 0>> >>,
              chunk |-> n]

BodyInit ==
    /\ UPLOAD_CHUNK_SIZE \in 1..MaxChunk
    /\ file_content \in {fc \in Sources : fc.pos <= fc.size}
    /\ on_progress \in BOOLEAN
    /\ body = [kind |-> "none", len |-> 0, size |-> 0]
    /\ headers = [content_length |-> 0 - 1]
    /\ gen = [pc |-> "none", sent |-> 0]
    /\ events = <<>>
    /\ yielded = 0

\* The call of _upload_body_and_headers on the source.
BuildBody ==
    /\ body.kind = "none"
    /\ LET r == _upload_body_and_headers(file_content)
       IN  /\ body' = r.body
           /\ headers' = [content_length |-> r.content_length]
           /\ file_content' = r.fc
           /\ gen' = [pc |-> IF r.is_stream THEN "created" ELSE "none", sent |-> 0]
    /\ UNCHANGED <<UPLOAD_CHUNK_SIZE, on_progress, events, yielded>>

\* The transport sends a bytes body whole.
SendBytes ==
    /\ body.kind = "bytes"
    /\ gen.pc = "none"
    /\ yielded' = yielded + body.len
    /\ gen' = [gen EXCEPT !.pc = "done"]
    /\ UNCHANGED <<UPLOAD_CHUNK_SIZE, file_content, on_progress, body, headers, events>>

\* The transport asks the chunk iterator for its next chunk.
NextChunk ==
    /\ body.kind = "iter"
    /\ gen.pc \in {"created", "suspended"}
    /\ \E r \in {stream_chunks(gen, file_content, on_progress, body.size)} :
           /\ gen' = r.gen
           /\ file_content' = r.fc
           /\ events' = events \o r.events
           /\ yielded' = yielded + r.chunk
    /\ UNCHANGED <<UPLOAD_CHUNK_SIZE, on_progress, body, headers>>

\* -------------------------------------------------- the PUT and its retry
VARIABLES
    put    \* the direct-write upload_file call in progress: its PUT attempts

putVars == <<put>>

\* pc: where the call stands; folder: the stripped folder; attempt: the PUT
\* being sent (1, or 2 for the retry); content_length: the Content-Length header
\* each PUT was given; sent: the bytes the body of each finished PUT handed to
\* the transport; status: the status returned.
PutIdle ==
    [pc |-> "idle", folder |-> <<>>, attempt |-> 0, content_length |-> <<>>,
     sent |-> <<>>, status |-> 0]

\* The element of `events` that marks where the retry starts.
RetryEv == <<"retry", 0, 0>>

\* A retry that sends the chunk iterator of the first attempt again.
RetryBody_ReusesChunks(fc, b, cl, g) ==
    IF b.kind = "iter"
    THEN [body |-> b, content_length |-> cl, fc |-> fc, gen |-> g]
    ELSE [body |-> b, content_length |-> cl, fc |-> fc,
          gen |-> [pc |-> "none", sent |-> 0]]

\* The body and headers of the retry PUT: `if is_stream and hasattr(
\* file_content, "seek")`, the source is rewound and body and headers are built
\* anew; a bytes body goes out again as it is.  b, cl, g: the body, the
\* Content-Length and the chunk iterator of the first attempt.
RetryBody(fc, b, cl, g) ==
    IF b.kind = "iter"
    THEN LET r == _upload_body_and_headers([fc EXCEPT !.pos = 0])
         IN  [body |-> r.body, content_length |-> r.content_length, fc |-> r.fc,
              gen |-> [pc |-> IF r.is_stream THEN "created" ELSE "none",
                       sent |-> 0]]
    ELSE [body |-> b, content_length |-> cl, fc |-> fc,
          gen |-> [pc |-> "none", sent |-> 0]]

\* upload_file in direct-write mode up to its first PUT: body and headers are
\* built from the source and handed to client.put.
PutStart(folder) ==
    /\ put.pc = "idle"
    /\ BuildBody
    /\ put' = [PutIdle EXCEPT
                 !.pc = "sending", !.folder = Strip(folder), !.attempt = 1,
                 !.content_length =
                     <<_upload_body_and_headers(file_content).content_length>>]

\* The transport takes the next part of the body of the PUT being sent.
PutSendBytes == put.pc = "sending" /\ SendBytes /\ UNCHANGED put
PutNextChunk == put.pc = "sending" /\ NextChunk /\ UNCHANGED put

\* The PUT being sent is answered (the server may answer before it has taken
\* the whole body): after a 404 of the first PUT with a folder given, the retry
\* is prepared and sent; otherwise the response is returned.
PutResponse(status) ==
    /\ put.pc = "sending"
    /\ IF put.attempt = 1 /\ RetriesAtRoot(status, put.folder)
       THEN \E r \in {RetryBody(file_content, body, headers.content_length, gen)} :
                /\ body' = r.body
                /\ headers' = [content_length |-> r.content_length]
                /\ file_content' = r.fc
                /\ gen' = r.gen
                /\ events' = Append(events, RetryEv)
                /\ yielded' = 0
                /\ put' = [put EXCEPT
                             !.attempt = 2,
                             !.sent = Append(@, yielded),
                             !.content_length = Append(@, r.content_length)]
       ELSE /\ put' = [put EXCEPT !.pc = "returned", !.status = status,
                                  !.sent = Append(@, yielded)]
            /\ UNCHANGED <<file_content, body, headers, gen, events, yielded>>
    /\ UNCHANGED <<UPLOAD_CHUNK_SIZE, on_progress>>

\* The PUT being sent raises: upload_file ends with the exception.
PutRaise ==
    /\ put.pc = "sending"
    /\ put' = [put EXCEPT !.pc = "raised", !.sent = Append(@, yielded)]
    /\ UNCHANGED bodyVars

\* ------------------------------------------------------ directory walker
VARIABLES
    local_tree,  \* the relative paths of the regular files under local_path
    walk         \* the call of upload_folder in progress, and its result

walkVars == <<local_tree, walk>>

\* The relative paths a local root may hold, in the order sorted() gives paths.
PoolFiles == << <<"a">>, <<"f">>, <<"s", "/", "f">>, <<"s", ".", "f">> >>

PoolSet == {PoolFiles[i] : i \in 1..Len(PoolFiles)}

InTree(p) == p \in local_tree

\* [f for f in sorted(local_path.rglob("*")) if f.is_file()], as relative paths
SortedFiles == SelectSeq(PoolFiles, InTree)

\* f.stat().st_size of the files a local root may hold
st_size(rel) == CASE rel = <<"a">> -> 0 [] rel = <<"f">> -> 3 [] OTHER -> 1

\* One element of walk.log: a call of on_file_progress(idx, total, rel, size) ...
FileProgressEv(idx, total, rel, size) ==
    [ev |-> "on_file_progress", idx |-> idx, total |-> total, rel |-> rel,
     size |-> size, method |-> ""]

\* ... or a request sent (and answered, or raised) while files[idx] was handled.
FileRequestEv(idx, rel, method) ==
    [ev |-> "req", idx |-> idx, total |-> 0, rel |-> rel, size |-> 0,
     method |-> method]

IsRequest(e) == e.ev = "req"

\* The requests of a trace as elements of walk.log.
FileRequests(trace, idx, rel) ==
    LET reqs == SelectSeq(trace, IsRequest)
    IN  [k \in 1..Len(reqs) |-> FileRequestEv(idx, rel, reqs[k].method)]

WalkIdle ==
    [pc |-> "idle", parent_folder |-> <<>>, use_put |-> FALSE, is_dir |-> TRUE,
     on_file_progress |-> FALSE, files |-> <<>>, idx |-> 0, ok |-> 0,
     failed |-> <<>>, results |-> <<>>, log |-> <<>>, exc |-> NoExc]

WalkInit ==
    /\ local_tree \in {t \in SUBSET PoolSet : Cardinality(t) <= MaxFiles}
    /\ walk = WalkIdle

\* An upload_folder that gets its connection before it looks at local_path.
UploadFolderStart_ConnectsFirst(parent_folder, is_dir, use_put, cb) ==
    /\ walk.pc = "idle"
    /\ CanConnect
    /\ Connected(_get_client(Resp(200)))
    /\ last' = Call("upload_folder", use_put, FALSE,
                    _get_client(Resp(200)).trace, NoExc, 0, NoBool)
    /\ walk' = IF ~is_dir
               THEN [WalkIdle EXCEPT !.pc = "raised", !.exc = "NotADirectoryError",
                                     !.parent_folder = parent_folder,
                                     !.use_put = use_put, !.is_dir = FALSE]
               ELSE [WalkIdle EXCEPT !.pc = "loop", !.files = SortedFiles,
                                     !.parent_folder = parent_folder,
                                     !.use_put = use_put,
                                     !.on_file_progress = cb]
    /\ UNCHANGED local_tree

\* upload_folder up to its loop: the directory test and the enumeration.
UploadFolderStart(parent_folder, is_dir, use_put, cb) ==
    /\ walk.pc = "idle"
    /\ walk' = IF ~is_dir
               THEN [WalkIdle EXCEPT !.pc = "raised", !.exc = "NotADirectoryError",
                                     !.parent_folder = parent_folder,
                                     !.use_put = use_put, !.is_dir = FALSE]
               ELSE [WalkIdle EXCEPT !.pc = "loop", !.files = SortedFiles,
                                     !.parent_folder = parent_folder,
                                     !.use_put = use_put,
                                     !.on_file_progress = cb]
    /\ UNCHANGED <<local_tree, sessVars>>

\* A test that takes 200 alone for a success.
IsUploaded_Only200(status) == status = 200

\* r.status_code in (200, 201)
IsUploaded(status) == status \in {200, 201}

\* A loop that enumerates the directory anew at every turn.
upload_folder_step_Reenumerates(w, r) ==
    LET files == IF w.idx < Len(SortedFiles) THEN SortedFiles ELSE w.files
        rel_str == files[w.idx + 1]
        log == w.log
               \o (IF w.on_file_progress
                   THEN <<FileProgressEv(w.idx + 1, Len(files), rel_str,
                                         st_size(rel_str))>>
                   ELSE <<>>)
               \o FileRequests(r.trace, w.idx + 1, rel_str)
    IN  IF r.exc # NoExc
        THEN [w EXCEPT !.pc = "raised", !.exc = r.exc, !.log = log, !.files = files]
        ELSE IF IsUploaded(r.ret_status)
        THEN [w EXCEPT !.idx = @ + 1, !.ok = @ + 1, !.files = files,
                       !.results = Append(@, r.ret_status), !.log = log]
        ELSE [w EXCEPT !.idx = @ + 1, !.files = files,
                       !.failed = Append(@, <<rel_str, r.ret_status>>),
                       !.results = Append(@, r.ret_status), !.log = log]

\* A loop that calls on_file_progress once the file is uploaded.
upload_folder_step_ReportsAfter(w, r) ==
    LET rel_str == w.files[w.idx + 1]
        log == w.log
               \o FileRequests(r.trace, w.idx + 1, rel_str)
               \o (IF w.on_file_progress
                   THEN <<FileProgressEv(w.idx + 1, Len(w.files), rel_str,
                                         st_size(rel_str))>>
                   ELSE <<>>)
    IN  IF r.exc # NoExc
        THEN [w EXCEPT !.pc = "raised", !.exc = r.exc, !.log = log]
        ELSE IF IsUploaded(r.ret_status)
        THEN [w EXCEPT !.idx = @ + 1, !.ok = @ + 1,
                       !.results = Append(@, r.ret_status), !.log = log]
        ELSE [w EXCEPT !.idx = @ + 1,
                       !.failed = Append(@, <<rel_str, r.ret_status>>),
                       !.results = Append(@, r.ret_status), !.log = log]

\* A loop that takes an exception of upload_file for one more failed file.
upload_folder_step_CatchesExc(w, r) ==
    LET rel_str == w.files[w.idx + 1]
        log == w.log
               \o (IF w.on_file_progress
                   THEN <<FileProgressEv(w.idx + 1, Len(w.files), rel_str,
                                         st_size(rel_str))>>
                   ELSE <<>>)
               \o FileRequests(r.trace, w.idx + 1, rel_str)
    IN  IF r.exc = NoExc /\ IsUploaded(r.ret_status)
        THEN [w EXCEPT !.idx = @ + 1, !.ok = @ + 1,
                       !.results = Append(@, r.ret_status), !.log = log]
        ELSE [w EXCEPT !.idx = @ + 1,
                       !.failed = Append(@, <<rel_str, r.ret_status>>),
                       !.results = Append(@, r.ret_status), !.log = log]

\* One turn of upload_folder's loop: the upload of files[idx] and its
\* classification.  results keeps every file's final status, for the record;
\* a failure entry is (relative path, status), the response text going with it.
upload_folder_step(w, r) ==
    LET rel_str == w.files[w.idx + 1]
        log == w.log
               \o (IF w.on_file_progress
                   THEN <<FileProgressEv(w.idx + 1, Len(w.files), rel_str,
                                         st_size(rel_str))>>
                   ELSE <<>>)
               \o FileRequests(r.trace, w.idx + 1, rel_str)
    IN  IF r.exc # NoExc
        THEN [w EXCEPT !.pc = "raised", !.exc = r.exc, !.log = log]
        ELSE IF IsUploaded(r.ret_status)
        THEN [w EXCEPT !.idx = @ + 1, !.ok = @ + 1,
                       !.results = Append(@, r.ret_status), !.log = log]
        ELSE [w EXCEPT !.idx = @ + 1,
                       !.failed = Append(@, <<rel_str, r.ret_status>>),
                       !.results = Append(@, r.ret_status), !.log = log]

UploadFolderFile(o) ==
    /\ walk.pc = "loop"
    /\ walk.idx < Len(walk.files)
    /\ CanConnect
    /\ \E r \in {upload_file(walk.parent_folder, walk.files[walk.idx + 1],
                             walk.use_put,
                             IF walk.use_put THEN ResumeParams ELSE <<>>,
                             walk.use_put, o)} :
           /\ _client' = r.client
           /\ opened' = r.opened
           /\ is_closed' = r.is_closed
           /\ last' = Call("upload_file", walk.use_put, r.gc_raised, r.trace,
                           r.exc, r.ret_status, NoBool)
           /\ walk' = upload_folder_step(walk, r)
    /\ UNCHANGED <<username, password, args, local_tree>>

\* Another process creates a file under the local root while a walk is in its
\* loop.
CreateFile(p) ==
    /\ walk.pc = "loop"
    /\ p \notin local_tree
    /\ Cardinality(local_tree) < MaxFiles
    /\ local_tree' = local_tree \cup {p}
    /\ UNCHANGED <<walk, sessVars>>

\* return (ok, failed)
UploadFolderReturn ==
    /\ walk.pc = "loop"
    /\ walk.idx = Len(walk.files)
    /\ walk' = [walk EXCEPT !.pc = "returned"]
    /\ UNCHANGED <<local_tree, sessVars>>

\* --------------------------------------------------- resource URL resolver
VARIABLES
    res_in,   \* get_uploaded_file_url's arguments and what the server lists
    res_out   \* its result: a URL (base, rest) once it has returned

resVars == <<res_in, res_out>>

\* HFSClient.base_url; the text stands for scheme://host.
base_url == <<"h">>

Digits == {"0", "1", "2", "9"}

DigitVal(c) == CASE c = "0" -> 0 [] c = "1" -> 1 [] c = "2" -> 2 [] OTHER -> 9

RECURSIVE IntOf(_)
\* int(digits)
IntOf(ds) ==
    IF ds = <<>> THEN 0 ELSE 10 * IntOf(SubSeq(ds, 1, Len(ds) - 1)) + DigitVal(ds[Len(ds)])

RECURSIVE StrLess(_, _)
\* a < b for strings of digits (character by character, a prefix being less)
StrLess(a, b) ==
    IF b = <<>> THEN FALSE
    ELSE IF a = <<>> THEN TRUE
    ELSE IF Head(a) # Head(b) THEN DigitVal(Head(a)) < DigitVal(Head(b))
    ELSE StrLess(Tail(a), Tail(b))

NotDot(seg) == seg # <<>> /\ seg # <<".">>

\* PurePath(p).parts of a relative path
PathParts(p) == SelectSeq(SplitSlash(p), NotDot)

\* Path(p).name
PathName(p) == IF PathParts(p) = <<>> THEN <<>> ELSE PathParts(p)[Len(PathParts(p))]

\* str(Path(p).parent)
PathParent(p) ==
    IF Len(PathParts(p)) <= 1 THEN <<".">>
    ELSE JoinSlash(SubSeq(PathParts(p), 1, Len(PathParts(p)) - 1))

\* name.rfind("."), counted from 1 (0: no dot)
LastDot(name) ==
    IF \A i \in 1..Len(name) : name[i] # "." THEN 0
    ELSE CHOOSE i \in 1..Len(name) :
             name[i] = "." /\ \A j \in (i + 1)..Len(name) : name[j] # "."

\* Path(p).suffix
PathSuffix(p) ==
    LET name == PathName(p)
        i == LastDot(name)
    IN  IF 1 < i /\ i < Len(name) THEN SubSeq(name, i, Len(name)) ELSE <<>>

\* Path(p).stem
PathStem(p) ==
    LET name == PathName(p)
        i == LastDot(name)
    IN  IF 1 < i /\ i < Len(name) THEN SubSeq(name, 1, i - 1) ELSE name

\* The group (\d+) of ^stem \((\d+)\)ext$ matched against n; <<>> when n does
\* not match.
PatternGroup(stem, ext, n) ==
    LET pre == stem \o <<" ", "(">>
        post == <<")">> \o ext
        lo == Len(pre) + 1
        hi == Len(n) - Len(post)
    IN  IF /\ lo <= hi
           /\ SubSeq(n, 1, Len(pre)) = pre
           /\ SubSeq(n, hi + 1, Len(n)) = post
           /\ \A i \in lo..hi : n[i] \in Digits
        THEN SubSeq(n, lo, hi)
        ELSE <<>>

\* pattern.match(n) is not None
PatternMatch(stem, ext, n) == PatternGroup(stem, ext, n) # <<>>

\* entry_modified(ent) or ""
MtimeOf(ent) == IF ent.m = None THEN <<>> ELSE ent.m

\* _sort_key(ent) of get_uploaded_file_url: (num, mtime)
_sort_key(stem, ext, ent) ==
    LET n == IF ent.n = None THEN <<>> ELSE ent.n
    IN  <<IF PatternMatch(stem, ext, n) THEN IntOf(PatternGroup(stem, ext, n)) ELSE 0,
          MtimeOf(ent)>>

\* An order that looks at the modification time before the number.
KeyLess_MtimeFirst(k1, k2) ==
    StrLess(k1[2], k2[2]) \/ (k1[2] = k2[2] /\ k1[1] < k2[1])

\* k1 < k2 for the tuples (num, mtime)
KeyLess(k1, k2) == k1[1] < k2[1] \/ (k1[1] = k2[1] /\ StrLess(k1[2], k2[2]))

RECURSIVE InsertDesc(_, _, _, _)
\* e put into the descending sequence after every element not less than it
InsertDesc(stem, ext, sorted, e) ==
    IF sorted = <<>> THEN <<e>>
    ELSE IF KeyLess(_sort_key(stem, ext, Head(sorted)), _sort_key(stem, ext, e))
    THEN <<e>> \o sorted
    ELSE <<Head(sorted)>> \o InsertDesc(stem, ext, Tail(sorted), e)

RECURSIVE SortDesc(_, _, _)
\* candidates.sort(key=_sort_key, reverse=True): stable, greatest key first
SortDesc(stem, ext, cands) ==
    IF cands = <<>> THEN <<>>
    ELSE InsertDesc(stem, ext,
                    SortDesc(stem, ext, SubSeq(cands, 1, Len(cands) - 1)),
                    cands[Len(cands)])

HexPairs == { <<"2", "0">>, <<"2", "8">>, <<"2", "9">>, <<"2", "F">>, <<"2", "5">>,
             <<"2", "1">>, <<"3", "A">>, <<"3", "B">>, <<"2", "3">>, <<"3", "F">> }

\* The character a %XX escape of an ASCII byte stands for.
UnquoteChar(x, y) ==
    CASE <<x, y>> = <<"2", "0">> -> " "
      [] <<x, y>> = <<"2", "8">> -> "("
      [] <<x, y>> = <<"2", "9">> -> ")"
      [] <<x, y>> = <<"2", "F">> -> "/"
      [] <<x, y>> = <<"2", "5">> -> "%"
      [] <<x, y>> = <<"2", "1">> -> "!"
      [] <<x, y>> = <<"3", "A">> -> ":"
      [] <<x, y>> = <<"3", "B">> -> ";"
      [] <<x, y>> = <<"2", "3">> -> "#"
      [] OTHER                   -> "?"

UEscape == <<"%", "E", "4", "%", "B", "D", "%", "A", "0">>
VEscape == <<"%", "E", "5", "%", "A", "5", "%", "B", "D">>

RECURSIVE unquote(_)
\* urllib.parse.unquote: %XX escapes turned back into characters (UTF-8)
unquote(s) ==
    IF s = <<>> THEN <<>>
    ELSE IF Len(s) >= 9 /\ SubSeq(s, 1, 9) = UEscape
    THEN <<"U">> \o unquote(SubSeq(s, 10, Len(s)))
    ELSE IF Len(s) >= 9 /\ SubSeq(s, 1, 9) = VEscape
    THEN <<"V">> \o unquote(SubSeq(s, 10, Len(s)))
    ELSE IF Len(s) >= 3 /\ s[1] = "%" /\ <<s[2], s[3]>> \in HexPairs
    THEN <<UnquoteChar(s[2], s[3])>> \o unquote(SubSeq(s, 4, Len(s)))
    ELSE <<Head(s)>> \o unquote(Tail(s))

\* The index of the first character of s that is in cs (Len(s) + 1: none)
FirstOf(s, cs) ==
    IF \A i \in 1..Len(s) : s[i] \notin cs THEN Len(s) + 1
    ELSE CHOOSE i \in 1..Len(s) : s[i] \in cs /\ \A j \in 1..(i - 1) : s[j] \notin cs

\* The index of the last character of s that is in cs (0: none)
LastOf(s, cs) ==
    IF \A i \in 1..Len(s) : s[i] \notin cs THEN 0
    ELSE CHOOSE i \in 1..Len(s) :
             s[i] \in cs /\ \A j \in (i + 1)..Len(s) : s[j] \notin cs

\* urlparse of scheme://netloc + rest, as far as rest goes: the fragment is
\* what follows the first "#", the query what follows the first "?" before
\* it, and of the path the parameters (what follows the first ";" of its last
\* segment) are split off.
urlparse(rest) ==
    LET h == FirstOf(rest, {"#"})
        before == SubSeq(rest, 1, h - 1)
        q == FirstOf(before, {"?"})
        whole == SubSeq(before, 1, q - 1)
        slash == LastOf(whole, {"/"})
        semi == slash + FirstOf(SubSeq(whole, slash + 1, Len(whole)), {";"})
    IN  [path |-> SubSeq(whole, 1, semi - 1),
         params |-> SubSeq(whole, semi + 1, Len(whole)),
         query |-> SubSeq(before, q + 1, Len(before)),
         fragment |-> SubSeq(rest, h + 1, Len(rest))]

\* _url_path_readable of the URL base + rest: scheme://netloc, the path
\* unquoted, then the query and the fragment if they are not empty.
_url_path_readable(base, rest) ==
    LET p == urlparse(rest)
    IN  [base |-> base,
         rest |-> unquote(p.path)
                  \o (IF p.query # <<>> THEN <<"?">> \o p.query ELSE <<>>)
                  \o (IF p.fragment # <<>> THEN <<"#">> \o p.fragment ELSE <<>>)]

\* HFSClient.get_resource_url
get_resource_url(path, human_readable) ==
    LET raw == [base |-> base_url, rest |-> _path_for_url(Strip(path))]
    IN  IF human_readable THEN _url_path_readable(raw.base, raw.rest) ELSE raw

\* No location header (or an empty one).
NoLocation == [abs |-> FALSE, base |-> <<>>, rest |-> <<>>]

\* HFSClient.get_uploaded_file_url.  location: the response's location header,
\* as scheme://host (base, when abs) and the rest; listed: what get_file_list
\* came to, an exception (exc) or the "list" of the data.
get_uploaded_file_url(folder, requested_filename, location, listed) ==
    IF location # NoLocation
    THEN IF location.abs THEN _url_path_readable(location.base, location.rest)
         ELSE IF Head(location.rest) = "/"
         THEN [base |-> RStrip(base_url), rest |-> unquote(location.rest)]
         ELSE get_resource_url(
                  Strip(RStrip(folder) \o <<"/">> \o unquote(location.rest)), TRUE)
    ELSE
    LET fld == Strip(folder)
        base_name == PathName(requested_filename)
        parent_rel == PathParent(requested_filename)
        parent_path == IF parent_rel # <<".">>
                       THEN Strip(fld \o <<"/">> \o parent_rel)
                       ELSE fld
        stem == PathStem(requested_filename)
        ext == PathSuffix(requested_filename)
        IsCandidate(e) ==
            e.n # None /\ (e.n = base_name \/ PatternMatch(stem, ext, e.n))
        candidates == SelectSeq(listed.list, IsCandidate)
    IN  IF listed.exc # NoExc \/ candidates = <<>>
        THEN get_resource_url(Strip(parent_path \o <<"/">> \o base_name), TRUE)
        ELSE LET actual_name == SortDesc(stem, ext, candidates)[1].n
             IN  get_resource_url(Strip(parent_path \o <<"/">> \o actual_name), TRUE)

\* The candidates of get_uploaded_file_url: the listed entries named as
\* requested or "stem (N)ext".
Candidates(requested_filename, list) ==
    LET IsCandidate(e) ==
            /\ e.n # None
            /\ \/ e.n = PathName(requested_filename)
               \/ PatternMatch(PathStem(requested_filename),
                               PathSuffix(requested_filename), e.n)
    IN  SelectSeq(list, IsCandidate)

\* Two sort keys can be ordered: tuples compare their numbers and, these being
\* equal, their mtimes, and Python orders str with str only.
Comparable(k1, k2) == k1[1] # k2[1] \/ (k1[2] # None /\ k2[2] # None)

\* candidates.sort raises TypeError: it has to order two keys that cannot be.
SortRaises(stem, ext, cands) ==
    \E i, j \in 1..Len(cands) :
        /\ i # j
        /\ ~Comparable(_sort_key(stem, ext, cands[i]), _sort_key(stem, ext, cands[j]))

\* An exception handling that lets the exception of the listing through.
ResolveExc_ListingPropagates(requested_filename, location, listed) ==
    IF location # NoLocation THEN NoExc
    ELSE IF listed.exc # NoExc THEN listed.exc
    ELSE IF SortRaises(PathStem(requested_filename), PathSuffix(requested_filename),
                       Candidates(requested_filename, listed.list))
    THEN "TypeError"
    ELSE NoExc

\* The exception get_uploaded_file_url raises (NoExc: it returns): the one of
\* the listing is caught by its try/except, the one of the sort is not.
ResolveExc(requested_filename, location, listed) ==
    IF location # NoLocation THEN NoExc
    ELSE IF listed.exc # NoExc THEN NoExc
    ELSE IF SortRaises(PathStem(requested_filename), PathSuffix(requested_filename),
                       Candidates(requested_filename, listed.list))
    THEN "TypeError"
    ELSE NoExc

\* The names and modification times a listing is made of: the requested name,
\* renamed copies of it, and names that only look alike.
ListedNames ==
    { <<"f", ".", "t">>,
      <<"f", " ", "(", "1", ")", ".", "t">>,
      <<"f", " ", "(", "9", ")", ".", "t">>,
      <<"f", " ", "(", "1", "0", ")", ".", "t">>,
      <<"g", ".", "t">> }

Mtimes == { <<"0", "1">>, <<"0", "2">> }

ListedEntries ==
    {[n |-> n, m |-> m] : n \in ListedNames, m \in Mtimes}
    \cup {[n |-> None, m |-> <<"0", "2">>],
          [n |-> <<"f", " ", "(", "9", ")", ".", "t">>, m |-> None]}

Listings == UNION {[1..k -> ListedEntries] : k \in 0..MaxEntries}

Requests ==
    {[folder |-> <<"d">>, requested_filename |-> <<"f", ".", "t">>],
     [folder |-> <<>>, requested_filename |-> <<"f", ".", "t">>],
     [folder |-> <<"/", "d", "/">>,
      requested_filename |-> <<"s", "/", "f", ".", "t">>]}

ResIdle == [folder |-> <<>>, requested_filename |-> <<>>, location |-> NoLocation,
            list |-> <<>>]

NoUrl == [base |-> <<>>, rest |-> <<>>]

\* The location headers of upload responses: none; absolute addresses; paths
\* from the server's root; paths relative to the folder.
Locations ==
    {NoLocation}
    \cup {[abs |-> TRUE, base |-> <<"o">>, rest |-> r] :
            r \in { <<"/", "d", "/", "f", "%", "2", "0", "(", "1", ")", ".", "t">>,
                    <<"/", "d", "/", "%", "E", "4", "%", "B", "D", "%", "A", "0", "?", "x">>,
                    <<"/", "d", "/", "f", ";", "1", ".", "t">> }}
    \cup {[abs |-> FALSE, base |-> <<>>, rest |-> r] :
            r \in { <<"/", "d", "/", "f", "%", "2", "0", "(", "1", ")", ".", "t">>,
                    <<"/", "d", "/", "f", ";", "1", ".", "t">>,
                    <<"f", "%", "2", "0", "(", "1", ")", ".", "t">>,
                    <<"f", ";", "1", ".", "t">>,
                    <<"s", "/", "%", "E", "4", "%", "B", "D", "%", "A", "0">> }}

ResolveInit ==
    /\ \E q \in Requests, loc \in Locations, l \in Listings :
           /\ loc # NoLocation => Len(l) <= 1
           /\ res_in = [folder |-> q.folder,
                        requested_filename |-> q.requested_filename,
                        location |-> loc, list |-> l]
    /\ res_out = [done |-> FALSE, url |-> NoUrl, listed |-> FALSE, exc |-> NoExc]

\* A call of get_uploaded_file_url on the session: with no location header it
\* lists the parent directory (o1, o2: the outcomes of the automatic login and
\* of the listing request).
GetUploadedFileUrl(o1, o2) ==
    /\ ~res_out.done
    /\ IF res_in.location # NoLocation
       THEN /\ res_out' = [done |-> TRUE, listed |-> FALSE, exc |-> NoExc,
                           url |-> get_uploaded_file_url(res_in.folder,
                                       res_in.requested_filename, res_in.location,
                                       [exc |-> NoExc, list |-> <<>>])]
            /\ UNCHANGED sessVars
       ELSE /\ CanConnect
            /\ \E r \in {get_file_list(o1, o2)} :
                   /\ Connected(r.g)
                   /\ last' = Call("get_uploaded_file_url", FALSE, r.g.raised, r.trace,
                                   ResolveExc(res_in.requested_filename,
                                              res_in.location,
                                              [exc |-> r.exc, list |-> res_in.list]),
                                   0, NoBool)
                   /\ res_out' = [done |-> TRUE, listed |-> r.exc = NoExc,
                                  exc |-> ResolveExc(res_in.requested_filename,
                                              res_in.location,
                                              [exc |-> r.exc, list |-> res_in.list]),
                                  url |-> get_uploaded_file_url(res_in.folder,
                                              res_in.requested_filename,
                                              res_in.location,
                                              [exc |-> r.exc, list |-> res_in.list])]
    /\ UNCHANGED res_in

\* ------------------------------------------------------------ URL paths
VARIABLES
    path_arg,  \* the path _path_for_url is called with
    path_url   \* what it returned (None: not called yet)

pathVars == <<path_arg, path_url>>

\* The longest path _path_for_url is applied to.
MaxPathLen == 4

\* The characters of those paths: the separator, an unreserved character, a
\* space, and the two non-ASCII characters.
PathChars == {"/", "d", " ", "U", "V"}

PathInit ==
    /\ path_arg \in UNION {[1..n -> PathChars] : n \in 0..MaxPathLen}
    /\ path_url = None

\* A call of _path_for_url.
PathForUrl ==
    /\ path_url = None
    /\ path_url' = _path_for_url(path_arg)
    /\ UNCHANGED path_arg

\* ----------------------------------------------------- saved configuration
VARIABLES
    config_file,  \* ~/.config/hfsapi/config.json: NoFile, or its text
    saved,        \* the arguments of the last save_config since the last clear
    cfg_last      \* the last call on the configuration and its result

cfgVars == <<config_file, saved, cfg_last>>

\* p.exists() is False.
NoFile == <<"NoFile">>

NoSave == [given |-> FALSE, base_url |-> <<>>, username |-> None, password |-> None]

\* The keys of the saved record.
BaseUrlKey == <<"b", "a", "s", "e", "_", "u", "r", "l">>
UsernameKey == <<"u", "s", "e", "r", "n", "a", "m", "e">>
PasswordKey == <<"p", "a", "s", "s", "w", "o", "r", "d">>

RECURSIVE JsonEscape(_)
\* The inside of a JSON string: the quote and the backslash escaped.
JsonEscape(str) ==
    IF str = <<>> THEN <<>>
    ELSE (IF Head(str) \in {"\"", "\\"} THEN <<"\\", Head(str)>> ELSE <<Head(str)>>)
         \o JsonEscape(Tail(str))

JsonString(str) == <<"\"">> \o JsonEscape(str) \o <<"\"">>

RECURSIVE JsonMembers(_)
\* "key": "value" lines, indented by two spaces, separated by commas
JsonMembers(data) ==
    IF data = <<>> THEN <<>>
    ELSE <<"\n", " ", " ">> \o JsonString(data[1][1]) \o <<":", " ">>
         \o JsonString(data[1][2])
         \o (IF Len(data) > 1 THEN <<",">> ELSE <<"\n">>)
         \o JsonMembers(Tail(data))

\* json.dumps(data, ensure_ascii=False, indent=2) of a dict of str to str,
\* given as the sequence of its (key, value) pairs
json_dumps(data) == <<"{">> \o JsonMembers(data) \o <<"}">>

RECURSIVE SkipWs(_, _)
\* The first position from i on that holds no white space.
SkipWs(text, i) ==
    IF i <= Len(text) /\ text[i] \in {" ", "\n"} THEN SkipWs(text, i + 1) ELSE i

RECURSIVE StringEnd(_, _)
\* The position of the quote that closes the string whose inside begins at i
\* (0: there is none).
StringEnd(text, i) ==
    IF i > Len(text) THEN 0
    ELSE IF text[i] = "\\" THEN StringEnd(text, i + 2)
    ELSE IF text[i] = "\"" THEN i
    ELSE StringEnd(text, i + 1)

RECURSIVE JsonUnescape(_)
JsonUnescape(str) ==
    IF str = <<>> THEN <<>>
    ELSE IF Head(str) = "\\" /\ Len(str) >= 2
    THEN <<str[2]>> \o JsonUnescape(SubSeq(str, 3, Len(str)))
    ELSE <<Head(str)>> \o JsonUnescape(Tail(str))

JsonInvalid == [ok |-> FALSE, data |-> <<>>]

RECURSIVE ParseMembers(_, _)
\* The members of an object from position i up to its closing brace.
ParseMembers(text, i) ==
    LET k0 == SkipWs(text, i)
        k1 == StringEnd(text, k0 + 1)
        c == SkipWs(text, k1 + 1)
        v0 == SkipWs(text, c + 1)
        v1 == StringEnd(text, v0 + 1)
        e == SkipWs(text, v1 + 1)
        pair == <<JsonUnescape(SubSeq(text, k0 + 1, k1 - 1)),
                  JsonUnescape(SubSeq(text, v0 + 1, v1 - 1))>>
    IN  IF \/ k0 > Len(text) \/ text[k0] # "\"" \/ k1 = 0
           \/ c > Len(text) \/ text[c] # ":"
           \/ v0 > Len(text) \/ text[v0] # "\"" \/ v1 = 0
           \/ e > Len(text)
        THEN JsonInvalid
        ELSE IF text[e] = "}" THEN [ok |-> TRUE, data |-> <<pair>>]
        ELSE IF text[e] = ","
        THEN [ok |-> ParseMembers(text, e + 1).ok,
              data |-> <<pair>> \o ParseMembers(text, e + 1).data]
        ELSE JsonInvalid

\* json.loads(text) for an object of strings: ok is FALSE where it raises.
json_loads(text) ==
    LET i == SkipWs(text, 1)
        j == SkipWs(text, i + 1)
    IN  IF i > Len(text) \/ text[i] # "{" THEN JsonInvalid
        ELSE IF j <= Len(text) /\ text[j] = "}" THEN [ok |-> TRUE, data |-> <<>>]
        ELSE ParseMembers(text, j)

\* key in data
HasKey(data, key) == \E i \in 1..Len(data) : data[i][1] = key

\* data[key]
ValueOf(data, key) == data[CHOOSE i \in 1..Len(data) : data[i][1] = key][2]

\* load_config(): found is FALSE where it returns None.
load_config ==
    IF config_file = NoFile THEN [found |-> FALSE, data |-> <<>>]
    ELSE LET r == json_loads(config_file)
         IN  IF ~r.ok \/ ~HasKey(r.data, BaseUrlKey)
             THEN [found |-> FALSE, data |-> <<>>]
             ELSE [found |-> TRUE, data |-> r.data]

\* A call of load_config.
LoadConfig ==
    /\ cfg_last' = [op |-> "load", found |-> load_config.found,
                    data |-> load_config.data, had_saved |-> saved.given]
    /\ UNCHANGED <<config_file, saved>>

\* A save_config that writes base_url as it was given.
save_config_KeepsSlash(b, u, p) ==
    /\ config_file' = json_dumps(<< <<BaseUrlKey, b>> >>
                           \o (IF u # None THEN << <<UsernameKey, u>> >> ELSE <<>>)
                           \o (IF p # None THEN << <<PasswordKey, p>> >> ELSE <<>>))
    /\ saved' = [given |-> TRUE, base_url |-> b, username |-> u, password |-> p]
    /\ cfg_last' = [op |-> "save", found |-> FALSE, data |-> <<>>,
                    had_saved |-> saved.given]

\* save_config(base_url, username, password)
save_config(b, u, p) ==
    /\ config_file' = json_dumps(<< <<BaseUrlKey, RStrip(b)>> >>
                           \o (IF u # None THEN << <<UsernameKey, u>> >> ELSE <<>>)
                           \o (IF p # None THEN << <<PasswordKey, p>> >> ELSE <<>>))
    /\ saved' = [given |-> TRUE, base_url |-> b, username |-> u, password |-> p]
    /\ cfg_last' = [op |-> "save", found |-> FALSE, data |-> <<>>,
                    had_saved |-> saved.given]

\* clear_config(): found holds what it returned.
clear_config ==
    /\ config_file' = NoFile
    /\ saved' = NoSave
    /\ cfg_last' = [op |-> "clear", found |-> config_file # NoFile, data |-> <<>>,
                    had_saved |-> saved.given]

\* The arguments save_config is called with.
BaseUrls == { <<"h">>, <<"h", "/">>, <<"h", "/", "/">>, <<"/">> }
Usernames == { None, <<>>, <<"a">>, <<"a", "\"">> }
Passwords == { None, <<"x">>, <<"\\", "x">> }


\* ------------------------------------------------------------ command line
VARIABLES
    cli    \* the hfs command being run: its arguments, the client it built,
           \* the calls it made on the client, what it printed, its exit status

cliVars == <<cli>>

\* Python's `a or b` on values that are None or strings.
Or(a, b) == IF a # None /\ a # <<>> THEN a ELSE b

\* A path or a full URL given on the command line.  abs: it reads
\* http(s)://<base><rest> with a network location; otherwise rest is the text.
Targets ==
    {[abs |-> FALSE, base |-> <<>>, rest |-> <<"d", "/", "f">>],
     [abs |-> TRUE, base |-> <<"o">>, rest |-> <<"/", "d", "/", "f">>]}

NoTarget == [abs |-> FALSE, base |-> <<>>, rest |-> <<>>]

\* _parse_path_or_url: (path, base_url_override)
_parse_path_or_url(t) ==
    IF t.abs
    THEN [path |-> Strip(Or(urlparse(t.rest).path, <<"/">>)), base |-> RStrip(t.base)]
    ELSE [path |-> Strip(t.rest), base |-> None]

\* cfg.get(key) of a loaded configuration
cfg_get(cfg, key) == IF HasKey(cfg.data, key) THEN ValueOf(cfg.data, key) ELSE None

NoHFSClient == [found |-> FALSE, base_url |-> None, username |-> None, password |-> None]

\* A _get_client that takes the saved base_url before the given one.
cli__get_client_PrefersSaved(given) ==
    LET cfg == load_config
        url == Or(IF cfg.found THEN cfg_get(cfg, BaseUrlKey) ELSE None, given)
    IN  IF url = None \/ url = <<>>
        THEN NoHFSClient
        ELSE [found |-> TRUE, base_url |-> RStrip(url),
              username |-> IF cfg.found THEN cfg_get(cfg, UsernameKey) ELSE None,
              password |-> IF cfg.found THEN cfg_get(cfg, PasswordKey) ELSE None]

\* cli._get_client(base_url): the HFSClient it constructs (base_url as
\* HFSClient.__init__ keeps it), or none.
cli__get_client(given) ==
    LET cfg == load_config
        url == Or(given, IF cfg.found THEN cfg_get(cfg, BaseUrlKey) ELSE None)
    IN  IF url = None \/ url = <<>>
        THEN NoHFSClient
        ELSE [found |-> TRUE, base_url |-> RStrip(url),
              username |-> IF cfg.found THEN cfg_get(cfg, UsernameKey) ELSE None,
              password |-> IF cfg.found THEN cfg_get(cfg, PasswordKey) ELSE None]

\* The options `hfs upload` declares; typer ends a command given any other
\* option with a usage error, status 2, before the command's function runs.
upload_options == {"--folder", "-f", "--name", "-n", "--progress", "-p", "--base-url", "-b"}

\* The command lines tried.  path_kind: what the local path of upload is.
Argvs ==
    {[cmd |-> c, target |-> t, base_url |-> None, options |-> {}, path_kind |-> "file"] :
        c \in {"list", "ls", "download", "mkdir", "delete"}, t \in Targets}
    \cup
    {[cmd |-> c, target |-> NoTarget, base_url |-> b, options |-> {}, path_kind |-> "file"] :
        c \in {"list", "config get", "config set", "vfs"}, b \in {None, <<"q">>}}
    \cup
    {[cmd |-> "upload", target |-> t, base_url |-> None, options |-> {"--folder"},
      path_kind |-> k] :
        t \in Targets, k \in {"file", "dir", "other", "missing"}}
    \cup
    {[cmd |-> "upload", target |-> t, base_url |-> None, options |-> o,
      path_kind |-> "file"] :
        t \in Targets, o \in {{"--folder", "--show-url"}, {"--folder", "-u"}}}

\* The address the command line gives: the URL's, else --base-url's, else None.
GivenAddress(a) == Or(_parse_path_or_url(a.target).base, a.base_url)

\* The last "/" of a string (0: none), for rsplit("/", 1).
LastSlash(str) ==
    IF \A i \in 1..Len(str) : str[i] # "/" THEN 0
    ELSE CHOOSE i \in 1..Len(str) :
             str[i] = "/" /\ \A j \in (i + 1)..Len(str) : str[j] # "/"

\* mkdir_cmd's and delete_cmd's split of the path into (parent, name).
SplitParent(path) ==
    LET pth == Strip(path)
        i == LastSlash(pth)
    IN  IF i = 0 THEN [parent |-> <<>>, name |-> pth]
        ELSE [parent |-> Strip(SubSeq(pth, 1, i - 1)),
              name |-> SubSeq(pth, i + 1, Len(pth))]

\* A client method that sends one request after _get_client; checks: it calls
\* raise_for_status on the response.
client_request(method, abs, path, hdrs, checks, o1, o2) ==
    LET g == _get_client(o1)
        trace == UntilRaise(g.trace \o <<Req(g.h, method, abs, path, <<>>, hdrs, o2)>>)
    IN  [client |-> g.client, opened |-> g.opened, is_closed |-> g.is_closed,
         gc_raised |-> g.raised, trace |-> trace,
         exc |-> IF Raised(trace) THEN "ConnectError"
                 ELSE IF checks /\ ~is_success(o2.status) THEN "HTTPStatusError"
                 ELSE NoExc,
         ret_status |-> StatusOf(trace)]

\* The name the uploaded file is given: `name or path.name`, the local file
\* being called f.
remote_name == <<"f">>

\* The call a command makes on its client, with the outcomes o of its requests.
client_call(a, o) ==
    LET pth == _parse_path_or_url(a.target).path
        sp == SplitParent(pth)
    IN  CASE a.cmd \in {"list", "ls"} ->
               client_request("GET", TRUE,
                   ApiPath(<<"g", "e", "t", "_", "f", "i", "l", "e", "_", "l", "i", "s", "t">>),
                   {}, TRUE, o[1], o[2])
          [] a.cmd = "upload" /\ a.path_kind \in {"file", "dir"} ->
               upload_file(pth, remote_name, TRUE, ResumeParams, TRUE, o)
          [] a.cmd = "download" ->
               client_request("GET", FALSE,
                   IF Strip(Or(pth, <<"/">>)) # <<>>
                   THEN <<"/">> \o Strip(Or(pth, <<"/">>)) ELSE <<"/">>,
                   {}, TRUE, o[1], o[2])
          [] a.cmd = "mkdir" ->
               upload_file(sp.parent, Strip(sp.name) \o <<"/", ".", "k", "e", "e", "p">>,
                           TRUE, ResumeParams, TRUE, o)
          [] a.cmd = "delete" ->
               client_request("DELETE", FALSE,
                   LET path == IF sp.parent # <<>>
                               THEN ReplaceDoubleSlash(sp.parent \o <<"/">> \o sp.name)
                               ELSE sp.name
                   IN  IF path # <<>> THEN <<"/">> \o path ELSE <<"/">>,
                   {}, FALSE, o[1], o[2])
          [] a.cmd \in {"config get", "vfs"} ->
               client_request("GET", TRUE,
                   ApiPath(<<"g", "e", "t", "_", "c", "o", "n", "f", "i", "g">>),
                   {}, TRUE, o[1], o[2])
          [] a.cmd = "config set" ->
               client_request("POST", TRUE,
                   ApiPath(<<"s", "e", "t", "_", "c", "o", "n", "f", "i", "g">>),
                   _post_headers, FALSE, o[1], o[2])
          [] OTHER ->
               [client |-> _client, opened |-> opened, is_closed |-> is_closed,
                gc_raised |-> FALSE, trace |-> <<>>, exc |-> NoExc, ret_status |-> 0]

\* One element of cli.calls: a method called on the client, with its arguments.
CallEv(name, a) == [name |-> name, args |-> a]
CloseEv == CallEv("close", <<>>)

\* The shape list, download, mkdir, delete, config get, config set and vfs
\* share: try: the call; except Exception: exit 1; finally: client.close();
\* then the status test, where there is one, and the message.  ok: the call
\* did not raise and its status passes the test.
TryFinally(call, ok, message) ==
    [calls |-> <<call, CloseEv>>,
     stdout |-> IF ok THEN message ELSE <<>>,
     exit_code |-> IF ok THEN 0 ELSE 1]

_cmd_list_impl(a, r) ==
    TryFinally(CallEv("get_file_list", <<_parse_path_or_url(a.target).path>>),
               r.exc = NoExc, <<>>)

download_cmd(a, r) ==
    TryFinally(CallEv("download_file", <<Or(_parse_path_or_url(a.target).path, <<"/">>)>>),
               r.exc = NoExc, <<"Saved to">>)

mkdir_cmd(a, r) ==
    TryFinally(CallEv("create_folder",
                      <<SplitParent(_parse_path_or_url(a.target).path).parent,
                        Strip(SplitParent(_parse_path_or_url(a.target).path).name)>>),
               r.exc = NoExc /\ r.ret_status \in {200, 201}, <<"Created.">>)

delete_cmd(a, r) ==
    TryFinally(CallEv("delete_file",
                      <<SplitParent(_parse_path_or_url(a.target).path).parent,
                        SplitParent(_parse_path_or_url(a.target).path).name>>),
               r.exc = NoExc /\ r.ret_status \in {200, 201, 204}, <<"Deleted.">>)

config_get(a, r) == TryFinally(CallEv("get_config", <<>>), r.exc = NoExc, <<"data">>)

config_set(a, r) ==
    TryFinally(CallEv("set_config", <<>>),
               r.exc = NoExc /\ is_success(r.ret_status), <<"OK.">>)

vfs_cmd(a, r) == TryFinally(CallEv("get_vfs", <<>>), r.exc = NoExc, <<"data">>)

\* An upload_cmd whose `except Exception` branch does not close the client.
upload_cmd_LeaksOnError(a, r) ==
    LET folder_path == _parse_path_or_url(a.target).path
    IN  CASE a.path_kind = "file" ->
               IF r.exc # NoExc
               THEN [calls |-> <<CallEv("upload_file", <<folder_path, remote_name>>)>>,
                     stdout |-> <<>>, exit_code |-> 1]
               ELSE [calls |-> <<CallEv("upload_file", <<folder_path, remote_name>>), CloseEv>>,
                     stdout |-> IF r.ret_status \in {200, 201} THEN <<"Uploaded.">> ELSE <<>>,
                     exit_code |-> IF r.ret_status \in {200, 201} THEN 0 ELSE 1]
          [] a.path_kind = "dir" ->
               IF r.exc # NoExc
               THEN [calls |-> <<CallEv("upload_folder", <<folder_path>>)>>,
                     stdout |-> <<>>, exit_code |-> 1]
               ELSE [calls |-> <<CallEv("upload_folder", <<folder_path>>), CloseEv>>,
                     stdout |-> <<"Uploaded file(s).">>,
                     exit_code |-> IF IsUploaded(r.ret_status) THEN 0 ELSE 1]
          [] OTHER ->
               [calls |-> <<CloseEv>>, stdout |-> <<>>, exit_code |-> 1]

\* upload_cmd once it has its client.  A file: upload_file, then close, then
\* the status test; a directory (holding the one file f): upload_folder, then
\* close, exit 1 when a file failed; an exception of either: close, exit 1;
\* neither a file nor a directory: close, exit 1.
upload_cmd(a, r) ==
    LET folder_path == _parse_path_or_url(a.target).path
    IN  CASE a.path_kind = "file" ->
               IF r.exc # NoExc
               THEN [calls |-> <<CallEv("upload_file", <<folder_path, remote_name>>), CloseEv>>,
                     stdout |-> <<>>, exit_code |-> 1]
               ELSE [calls |-> <<CallEv("upload_file", <<folder_path, remote_name>>), CloseEv>>,
                     stdout |-> IF r.ret_status \in {200, 201} THEN <<"Uploaded.">> ELSE <<>>,
                     exit_code |-> IF r.ret_status \in {200, 201} THEN 0 ELSE 1]
          [] a.path_kind = "dir" ->
               IF r.exc # NoExc
               THEN [calls |-> <<CallEv("upload_folder", <<folder_path>>), CloseEv>>,
                     stdout |-> <<>>, exit_code |-> 1]
               ELSE [calls |-> <<CallEv("upload_folder", <<folder_path>>), CloseEv>>,
                     stdout |-> <<"Uploaded file(s).">>,
                     exit_code |-> IF IsUploaded(r.ret_status) THEN 0 ELSE 1]
          [] OTHER ->
               [calls |-> <<CloseEv>>, stdout |-> <<>>, exit_code |-> 1]

\* The function of the command, from the point where it has its client.
Command(a, r) ==
    CASE a.cmd \in {"list", "ls"} -> _cmd_list_impl(a, r)
      [] a.cmd = "upload" -> upload_cmd(a, r)
      [] a.cmd = "download" -> download_cmd(a, r)
      [] a.cmd = "mkdir" -> mkdir_cmd(a, r)
      [] a.cmd = "delete" -> delete_cmd(a, r)
      [] a.cmd = "config get" -> config_get(a, r)
      [] a.cmd = "config set" -> config_set(a, r)
      [] OTHER -> vfs_cmd(a, r)

NoArgv == [cmd |-> "", target |-> NoTarget, base_url |-> None, options |-> {},
           path_kind |-> "file"]

CliIdle ==
    [pc |-> "idle", argv |-> NoArgv, has_client |-> FALSE, base_url |-> None,
     calls |-> <<>>, stdout |-> <<>>, exit_code |-> 0 - 1]

\* A command ended by typer or by itself before it asked for a client.
Exited(a, code) == [CliIdle EXCEPT !.pc = "done", !.argv = a, !.exit_code = code]

\* A command up to _require_client: the options are parsed, the arguments
\* tested, the client constructed from the given address and the saved
\* configuration (or the command ends with status 1).  Every command is a
\* process of its own: all it takes over from the commands before it is the
\* configuration file, so the commands tried are those that follow a login or
\* a logout.
CliStart(a) ==
    /\ cli.pc = "idle" \/ (cli.pc = "done" /\ cli.argv.cmd \in {"login", "logout"})
    /\ \E c \in {cli__get_client(GivenAddress(a))} :
         IF a.cmd = "upload" /\ ~(a.options \subseteq upload_options)
         THEN cli' = Exited(a, 2) /\ UNCHANGED sessVars
         ELSE IF a.cmd = "upload" /\ a.path_kind = "missing"
         THEN cli' = Exited(a, 1) /\ UNCHANGED sessVars
         ELSE IF ~c.found
         THEN cli' = Exited(a, 1) /\ UNCHANGED sessVars
         ELSE /\ cli' = [CliIdle EXCEPT !.pc = "client", !.argv = a,
                                        !.has_client = TRUE, !.base_url = c.base_url]
              /\ username' = c.username
              /\ password' = c.password
              /\ _client' = NoClient
              /\ opened' = 0
              /\ is_closed' = <<>>
              /\ last' = [op |-> "init", after_close |-> FALSE, had_client |-> FALSE,
                          use_put |-> FALSE, gc_raised |-> FALSE, trace |-> <<>>,
                          exc |-> NoExc, ret_status |-> 0, ret_bool |-> NoBool]
              /\ UNCHANGED args
    /\ UNCHANGED cfgVars

\* The outcomes to try for the requests of the command's call.
CliOutcomes ==
    IF cli.argv.cmd \in {"upload", "mkdir"}
    THEN UploadOutcomes(<<"d">>, TRUE, TRUE)
    ELSE UNION {{<<o1, o2, Resp(200), Resp(200)>> : o2 \in After(o1, TRUE, Outcomes)} :
                   o1 \in LoginOutcomes}

\* The rest of the command: its call on the client, every client.close() on
\* its way out (HFSClient.close: the handle is closed and dropped), the
\* messages and the exit status.
CliFinish(o) ==
    /\ cli.pc = "client"
    /\ \E r \in {client_call(cli.argv, o)} :
       \E c \in {Command(cli.argv, r)} :
       \E closed \in {\E i \in 1..Len(c.calls) : c.calls[i].name = "close"} :
           /\ cli' = [cli EXCEPT !.pc = "done", !.calls = c.calls,
                                 !.stdout = c.stdout, !.exit_code = c.exit_code]
           /\ _client' = IF closed THEN NoClient ELSE r.client
           /\ is_closed' = IF closed /\ r.client # NoClient
                           THEN [r.is_closed EXCEPT ![r.client] = TRUE]
                           ELSE r.is_closed
           /\ opened' = r.opened
           /\ last' = Call(cli.argv.cmd, TRUE, r.gc_raised, r.trace, r.exc,
                           r.ret_status, NoBool)
    /\ UNCHANGED <<username, password, args>>
    /\ UNCHANGED cfgVars

\* hfs login: the configuration is saved (a username given, the password is
\* given or asked for).
cli_login(b, u, p) ==
    /\ cli.pc \in {"idle", "done"}
    /\ u # None => p # None
    /\ save_config(b, u, p)
    /\ cli' = [Exited([NoArgv EXCEPT !.cmd = "login"], 0) EXCEPT !.stdout = <<"Saved.">>]
    /\ UNCHANGED sessVars

\* hfs logout
logout ==
    /\ cli.pc \in {"idle", "done"}
    /\ clear_config
    /\ cli' = [Exited([NoArgv EXCEPT !.cmd = "logout"], 0) EXCEPT
                 !.stdout = IF config_file # NoFile THEN <<"Cleared.">>
                            ELSE <<"No saved credentials.">>]
    /\ UNCHANGED sessVars

\* ----------------------------------------------------------- specifications
vars == <<sessVars, bodyVars, putVars, walkVars, resVars, pathVars, cfgVars, cliVars>>

\* The parts of the state a specification does not exercise stay as built.
BodyRest ==
    /\ UPLOAD_CHUNK_SIZE = 1
    /\ file_content = [kind |-> "bytes", size |-> 0, pos |-> 0, seek_fails |-> 0]
    /\ on_progress = FALSE
    /\ body = [kind |-> "none", len |-> 0, size |-> 0]
    /\ headers = [content_length |-> 0 - 1]
    /\ gen = [pc |-> "none", sent |-> 0]
    /\ events = <<>>
    /\ yielded = 0

PutRest == put = PutIdle

WalkRest == local_tree = {} /\ walk = WalkIdle

ResRest ==
    /\ res_in = ResIdle
    /\ res_out = [done |-> FALSE, url |-> NoUrl, listed |-> FALSE, exc |-> NoExc]

PathRest == path_arg = <<>> /\ path_url = None

CliRest == cli = CliIdle

CfgRest ==
    /\ config_file = NoFile
    /\ saved = NoSave
    /\ cfg_last = [op |-> "init", found |-> FALSE, data |-> <<>>, had_saved |-> FALSE]

BoolSet == {TRUE, FALSE}

\* A client session and the calls made on it, one after the other.
Init ==
    /\ SessionInit
    /\ args \in CallArgs
    /\ BodyRest /\ PutRest /\ WalkRest /\ ResRest /\ PathRest /\ CfgRest /\ CliRest

Next ==
    \/ close /\ UNCHANGED <<bodyVars, walkVars, resVars, pathVars, cfgVars, putVars, cliVars>>
    \/ \E o1 \in LoginOutcomes : \E o2 \in After(o1, TRUE, IgnoredOutcomes) :
           login(o1, o2) /\ UNCHANGED <<bodyVars, walkVars, resVars, pathVars, cfgVars, putVars, cliVars>>
    \/ \E o1 \in LoginOutcomes : \E o2 \in After(o1, TRUE, IgnoredOutcomes) :
           GetFileList(o1, o2) /\ UNCHANGED <<bodyVars, walkVars, resVars, pathVars, cfgVars, putVars, cliVars>>
    \/ \E m \in UploadModes :
         \E o \in UploadOutcomes(args.folder, m.use_put, m.use_session_for_put) :
           /\ UploadFile(args.folder, args.filename, m.use_put, m.put_params,
                         m.use_session_for_put, o)
           /\ UNCHANGED <<bodyVars, walkVars, resVars, pathVars, cfgVars, putVars, cliVars>>
    \/ \E o1 \in LoginOutcomes : \E o2 \in After(o1, TRUE, IgnoredOutcomes) :
           /\ args.filename # <<>>
           /\ delete_file(args.folder, args.filename, o1, o2)
           /\ UNCHANGED <<bodyVars, walkVars, resVars, pathVars, cfgVars, putVars, cliVars>>
    \/ \E o1 \in LoginOutcomes : \E o2 \in After(o1, TRUE, IgnoredOutcomes) :
           set_config(o1, o2) /\ UNCHANGED <<bodyVars, walkVars, resVars, pathVars, cfgVars, putVars, cliVars>>

Spec == Init /\ [][Next]_vars

\* A byte source, the body built from it and the body's consumption.
InitBody == SessionInit /\ username = None /\ password = None /\ args = NoArgs
            /\ BodyInit /\ PutRest /\ WalkRest /\ ResRest /\ PathRest /\ CfgRest /\ CliRest

NextBody ==
    \/ BuildBody /\ UNCHANGED <<sessVars, walkVars, resVars, pathVars, cfgVars, putVars, cliVars>>
    \/ SendBytes /\ UNCHANGED <<sessVars, walkVars, resVars, pathVars, cfgVars, putVars, cliVars>>
    \/ NextChunk /\ UNCHANGED <<sessVars, walkVars, resVars, pathVars, cfgVars, putVars, cliVars>>

SpecBody == InitBody /\ [][NextBody]_vars

\* A session on which local directories are walked.
InitWalk == SessionInit /\ (username = None <=> password = None) /\ args = NoArgs
            /\ BodyRest /\ PutRest /\ WalkInit /\ ResRest /\ PathRest /\ CfgRest /\ CliRest

NextWalk ==
    \/ \E parent_folder \in {<<>>, <<"d">>}, is_dir \in BoolSet, use_put \in BoolSet,
          cb \in BoolSet :
           UploadFolderStart(parent_folder, is_dir, use_put, cb)
           /\ UNCHANGED <<bodyVars, resVars, pathVars, cfgVars, putVars, cliVars>>
    \/ \E o \in UploadOutcomes(walk.parent_folder, walk.use_put, walk.use_put) :
           UploadFolderFile(o) /\ UNCHANGED <<bodyVars, resVars, pathVars, cfgVars, putVars, cliVars>>
    \/ UploadFolderReturn /\ UNCHANGED <<bodyVars, resVars, pathVars, cfgVars, putVars, cliVars>>
    \/ \E p \in PoolSet : CreateFile(p) /\ UNCHANGED <<bodyVars, resVars, pathVars, cfgVars, putVars, cliVars>>
    \/ \E folder \in {<<>>, <<"d">>} :
           /\ walk.pc # "loop"
           /\ UploadFile(folder, args.filename, TRUE, <<>>, FALSE,
                         <<Resp(200), Resp(200), Resp(200), Resp(200)>>)
           /\ UNCHANGED <<bodyVars, walkVars, resVars, pathVars, cfgVars, putVars, cliVars>>

\* The caller is single-threaded: it calls upload_file itself (here in
\* direct-write mode without a file name, args.filename being empty) only while
\* no walk is running.
SpecWalk == InitWalk /\ [][NextWalk]_vars

\* A session resolving the URL of an uploaded file.
InitResolve == SessionInit /\ username = None /\ password = None
               /\ args = NoArgs /\ BodyRest /\ PutRest /\ WalkRest /\ ResolveInit
               /\ PathRest /\ CfgRest /\ CliRest

NextResolve ==
    \E o1 \in LoginOutcomes : \E o2 \in After(o1, TRUE, IgnoredOutcomes) :
        GetUploadedFileUrl(o1, o2) /\ UNCHANGED <<bodyVars, walkVars, pathVars, cfgVars, putVars, cliVars>>

SpecResolve == InitResolve /\ [][NextResolve]_vars

\* The configuration file and the calls that save, clear and load it.
InitConfig == SessionInit /\ username = None /\ password = None /\ args = NoArgs
              /\ BodyRest /\ PutRest /\ WalkRest /\ ResRest /\ PathRest /\ CfgRest /\ CliRest

NextConfig ==
    \/ \E b \in BaseUrls, u \in Usernames, p \in Passwords :
           save_config(b, u, p)
           /\ UNCHANGED <<sessVars, bodyVars, walkVars, resVars, pathVars, putVars, cliVars>>
    \/ clear_config /\ UNCHANGED <<sessVars, bodyVars, walkVars, resVars, pathVars, putVars, cliVars>>
    \/ LoadConfig /\ UNCHANGED <<sessVars, bodyVars, walkVars, resVars, pathVars, putVars, cliVars>>

SpecConfig == InitConfig /\ [][NextConfig]_vars

\* _path_for_url applied to a path.
InitPath == SessionInit /\ username = None /\ password = None /\ args = NoArgs
            /\ BodyRest /\ PutRest /\ WalkRest /\ ResRest /\ PathInit /\ CfgRest /\ CliRest

NextPath == PathForUrl /\ UNCHANGED <<sessVars, bodyVars, walkVars, resVars, cfgVars, putVars, cliVars>>

SpecPath == InitPath /\ [][NextPath]_vars

\* A direct-write upload_file call: its body, its PUT and the retry after a 404.
InitRetry == SessionInit /\ username = None /\ password = None /\ args = NoArgs
             /\ BodyInit /\ PutRest /\ WalkRest /\ ResRest /\ PathRest /\ CfgRest /\ CliRest

NextRetry ==
    \/ \E folder \in {<<>>, <<"d">>} :
           PutStart(folder) /\ UNCHANGED <<sessVars, walkVars, resVars, pathVars, cfgVars, cliVars>>
    \/ PutSendBytes /\ UNCHANGED <<sessVars, walkVars, resVars, pathVars, cfgVars, cliVars>>
    \/ PutNextChunk /\ UNCHANGED <<sessVars, walkVars, resVars, pathVars, cfgVars, cliVars>>
    \/ \E status \in Statuses :
           PutResponse(status) /\ UNCHANGED <<sessVars, walkVars, resVars, pathVars, cfgVars, cliVars>>
    \/ PutRaise /\ UNCHANGED <<sessVars, walkVars, resVars, pathVars, cfgVars, cliVars>>

SpecRetry == InitRetry /\ [][NextRetry]_vars

\* The hfs commands run one after the other over the saved configuration.
InitCli == SessionInit /\ username = None /\ password = None /\ args = NoArgs
           /\ BodyRest /\ PutRest /\ WalkRest /\ ResRest /\ PathRest /\ CfgRest /\ CliRest

NextCli ==
    \/ \E a \in Argvs :
           CliStart(a) /\ UNCHANGED <<bodyVars, putVars, walkVars, resVars, pathVars>>
    \/ \E o \in CliOutcomes :
           CliFinish(o) /\ UNCHANGED <<bodyVars, putVars, walkVars, resVars, pathVars>>
    \/ \E u \in {None, <<"a">>}, p \in {None, <<"x">>} :
           cli_login(<<"h", "/">>, u, p)
           /\ UNCHANGED <<bodyVars, putVars, walkVars, resVars, pathVars>>
    \/ logout /\ UNCHANGED <<bodyVars, putVars, walkVars, resVars, pathVars>>

SpecCli == InitCli /\ [][NextCli]_vars

\* ------------------------------------------------------------------ claims
IsPut(e) == e.ev = "req" /\ e.method = "PUT"

\* The PUTs of the last call, in the order they were sent.
Puts == SelectSeq(last.trace, IsPut)

DirectWrite == last.op = "upload_file" /\ last.use_put

\* C1: in direct-write mode upload_file sends a second PUT exactly when the
\* first PUT was answered 404 and the stripped folder is not empty; the second
\* PUT goes to "/" + file name; there is never a third PUT; and the status
\* returned is that of the last PUT sent.
C1_RetryOnce ==
    DirectWrite =>
        /\ Len(Puts) <= 2
        /\ Len(Puts) = 2 <=>
              /\ Len(Puts) >= 1
              /\ ~Puts[1].out.raised
              /\ Puts[1].out.status = 404
              /\ Strip(args.folder) # <<>>
        /\ Len(Puts) = 2 => Puts[2].path = <<"/">> \o args.filename
        /\ last.exc = NoExc =>
              /\ Puts # <<>>
              /\ last.trace[Len(last.trace)] = Puts[Len(Puts)]
              /\ last.ret_status = Puts[Len(Puts)].out.status

\* C1, the case: the retry was sent, was answered 404 too, and that is returned.
C1_Witness ==
    /\ DirectWrite
    /\ Len(Puts) = 2
    /\ Puts[2].out = Resp(404)
    /\ last.ret_status = 404

\* The body has been consumed to its end.
BodyConsumed == gen.pc = "done"

\* C2: whatever the byte source (bytes, a stream that seeks, a stream whose
\* seek fails), the Content-Length header equals the number of bytes the body
\* yields when consumed to its end, and the body never yields more than that.
C2_ContentLength ==
    /\ body.kind # "none" => yielded <= headers.content_length
    /\ BodyConsumed => headers.content_length = yielded

\* C2, the case: a stream whose seek failed was read whole from where it stood,
\* short of its full size.
C2_Witness ==
    /\ BodyConsumed
    /\ file_content.kind = "stream"
    /\ file_content.seek_fails = 1
    /\ yielded > 0
    /\ yielded < file_content.size

IsCb(e) == e[1] = "cb"
IsYield(e) == e[1] = "yield"

\* The progress callbacks made so far, in order.
Callbacks == SelectSeq(events, IsCb)

\* ceil(s / c)
CeilDiv(s, c) == (s + c - 1) \div c

\* C3: for a stream of S bytes that seeks, read in chunks of C with a progress
\* callback: the first thing to happen is the callback (0, S); once the
\* iterator is exhausted there were exactly ceil(S / C) more callbacks, their
\* sent values strictly increasing and the last equal to S; for S = 0 the one
\* callback is (0, 0) and nothing is yielded.
C3_Chunking ==
    (body.kind = "iter" /\ on_progress) =>
        LET S == file_content.size
            n == CeilDiv(S, UPLOAD_CHUNK_SIZE)
        IN  /\ events # <<>> => events[1] = <<"cb", 0, S>>
            /\ BodyConsumed =>
                  /\ Len(Callbacks) = n + 1
                  /\ \A i \in 2..(n + 1) :
                        /\ Callbacks[i][2] > Callbacks[i - 1][2]
                        /\ Callbacks[i][3] = S
                  /\ Callbacks[Len(Callbacks)][2] = S
                  /\ Len(SelectSeq(events, IsYield)) = n
                  /\ S = 0 => Callbacks = << <<"cb", 0, 0>> >>

\* C3, the case: three bytes in chunks of two, the last chunk a short one.
C3_Witness ==
    /\ body.kind = "iter"
    /\ on_progress
    /\ BodyConsumed
    /\ file_content.size = 3
    /\ UPLOAD_CHUNK_SIZE = 2
    /\ Callbacks = << <<"cb", 0, 3>>, <<"cb", 2, 3>>, <<"cb", 3, 3>> >>

RECURSIVE CountUploaded(_)
\* How many of the statuses are 200 or 201.
CountUploaded(statuses) ==
    IF statuses = <<>> THEN 0
    ELSE (IF Head(statuses) \in {200, 201} THEN 1 ELSE 0) + CountUploaded(Tail(statuses))

RECURSIVE FailuresOf(_, _)
\* The (relative path, status) of the files whose status is neither 200 nor 201,
\* in the order of the files.
FailuresOf(files, statuses) ==
    IF statuses = <<>> THEN <<>>
    ELSE (IF Head(statuses) \in {200, 201} THEN <<>>
          ELSE << <<Head(files), Head(statuses)>> >>)
         \o FailuresOf(Tail(files), Tail(statuses))

\* During and after a walk: every file handled so far is classified once, by
\* its final status.
WalkClassified ==
    walk.pc \in {"loop", "returned"} =>
        /\ Len(walk.results) = walk.idx
        /\ walk.ok = CountUploaded(walk.results)
        /\ walk.failed = FailuresOf(walk.files, walk.results)
        /\ walk.ok + Len(walk.failed) = walk.idx
        /\ walk.pc = "returned" => walk.idx = Len(walk.files)

\* One step of a walk: the success count does not decrease and the failure
\* list only grows.
WalkMonotone ==
    (walk.pc = "loop" /\ walk'.pc # "idle") =>
        /\ walk'.ok >= walk.ok
        /\ Len(walk'.failed) >= Len(walk.failed)
        /\ SubSeq(walk'.failed, 1, Len(walk.failed)) = walk.failed

\* C4: when upload_folder returns over N files, each file was classified
\* once: a success exactly when its final status is 200 or 201, otherwise
\* (relative path, status) appended to the failure list, the walk going on;
\* so successes + failures = N, no success is in the failure list, the success
\* count never decreases and the failure list only grows.
C4_Aggregation == []WalkClassified /\ [][WalkMonotone]_vars

\* C4, the case: a walk over two files returned one success (a 201) and one
\* failure.
C4_Witness ==
    /\ walk.pc = "returned"
    /\ Len(walk.files) = 2
    /\ walk.ok = 1
    /\ Len(walk.failed) = 1
    /\ 201 \in {walk.results[i] : i \in 1..Len(walk.results)}

\* The listed entries get_uploaded_file_url may pick: those named exactly as
\* requested or "stem (N)extension".
Matching ==
    LET name == PathName(res_in.requested_filename)
        stem == PathStem(res_in.requested_filename)
        ext == PathSuffix(res_in.requested_filename)
    IN  {e \in {res_in.list[i] : i \in 1..Len(res_in.list)} :
            /\ e.n # None
            /\ \/ e.n = name
               \/ \E ds \in {<<"1">>, <<"9">>, <<"1", "0">>} :
                      e.n = stem \o <<" ", "(">> \o ds \o <<")">> \o ext}

\* The N of a matching entry: 0 for the exact name.
NumberOf(e) ==
    IF e.n = PathName(res_in.requested_filename) THEN 0
    ELSE CHOOSE k \in {1, 9, 10} :
             \E ds \in {<<"1">>, <<"9">>, <<"1", "0">>} :
                 /\ IntOf(ds) = k
                 /\ e.n = PathStem(res_in.requested_filename) \o <<" ", "(">> \o ds
                          \o <<")">> \o PathSuffix(res_in.requested_filename)

\* When an entry was modified, as a number (an entry without a time: before all).
TimeOf(e) == IF e.m = None THEN 0 - 1 ELSE IntOf(e.m)

\* The URL of a name in the parent directory of the requested file.
UrlOfName(name) ==
    [base |-> base_url,
     rest |-> <<"/">> \o JoinSlash(PathParts(res_in.folder)
                  \o SubSeq(PathParts(res_in.requested_filename), 1,
                            Len(PathParts(res_in.requested_filename)) - 1)
                  \o <<name>>)]

HasCredentials == username # None /\ password # None

\* The handles of the session that are open.
OpenHandles == {h \in 1..opened : ~is_closed[h]}

\* The last call was one that goes to the network.
NeedsNetwork ==
    \/ last.op \in {"get_file_list", "delete_file", "set_config"}
    \/ last.op = "upload_file" /\ last.exc # "ValueError"
    \/ last.op = "login" /\ HasCredentials

\* A step that is a call of close().
CloseStep == last'.op = "close" /\ last' # last

\* C6: close() does not raise, whether no connection was ever opened, one is
\* open, or the session was closed already; with a connection open it closes
\* it and clears the cached handle; a second close() changes nothing.
C6_Close ==
    [][CloseStep =>
          /\ last'.exc = NoExc
          /\ opened' = opened
          /\ (_client # NoClient /\ ~is_closed[_client]) =>
                 /\ is_closed'[_client]
                 /\ _client' = NoClient
          /\ last.op = "close" => UNCHANGED <<_client, is_closed>>
          /\ OpenHandles' = {}]_vars

\* C6, the case: close() twice in a row on a session that had a connection.
C6_Witness ==
    /\ last.op = "close"
    /\ last.after_close
    /\ opened >= 1
    /\ _client = NoClient

\* "login=a%3Ax"
ExpectedLoginQuery == <<"l", "o", "g", "i", "n", "=", "a", "%", "3", "A", "x">>

\* C7: the first call after close() that goes to the network opens a new
\* connection and, with username and password configured, sends
\* GET /?login=user:pass on it before any request of its own.
C7_ReloginAfterClose ==
    (last.after_close /\ NeedsNetwork) =>
        LET t == last.trace
        IN  /\ Len(t) >= 1
            /\ t[1].ev = "open"
            /\ t[1].h = opened
            /\ \A i \in 2..Len(t) : t[i].ev = "req" /\ t[i].h = t[1].h
            /\ HasCredentials =>
                  /\ Len(t) >= 2
                  /\ t[2].method = "GET"
                  /\ ~t[2].abs
                  /\ t[2].path = <<"/">>
                  /\ t[2].query = ExpectedLoginQuery

\* C7, the case: a direct-write upload right after close(), on the session's
\* second connection: login, then the upload's requests.
C7_Witness ==
    /\ last.after_close
    /\ DirectWrite
    /\ HasCredentials
    /\ opened = 2
    /\ Len(last.trace) >= 3
    /\ last.trace[2].query = ExpectedLoginQuery
    /\ Len(Puts) >= 1

\* C8: at most one handle of the session is open, and it is the cached one; a
\* call made with a handle cached constructs no handle and sends its requests
\* on the cached one; a call made without constructs one first.
C8_OneLiveHandle ==
    /\ Cardinality(OpenHandles) <= 1
    /\ OpenHandles \subseteq {_client}
    /\ (last.had_client /\ last.op # "close") =>
           \A i \in 1..Len(last.trace) :
               last.trace[i].ev = "req" /\ last.trace[i].h = _client
    /\ (~last.had_client /\ NeedsNetwork) =>
           /\ last.trace # <<>>
           /\ last.trace[1].ev = "open"
           /\ \A i \in 2..Len(last.trace) : last.trace[i].ev = "req"

\* C8, the case: the second handle is open and cached, the first closed, and the
\* login on the second raised.
C8_Witness ==
    /\ opened = 2
    /\ is_closed[1]
    /\ ~is_closed[2]
    /\ _client = 2
    /\ last.gc_raised

\* The last call opened a connection and its automatic login failed: it was
\* answered with an error status, or the request raised.
AutoLoginFailed ==
    /\ Len(last.trace) >= 2
    /\ last.trace[1].ev = "open"
    /\ last.trace[2].ev = "req"
    /\ ~last.trace[2].abs
    /\ last.trace[2].query = ExpectedLoginQuery
    /\ \/ last.trace[2].out.raised
       \/ last.trace[2].out.status \notin 200..299

\* C9: a failure of the automatic login is not raised from _get_client(), which
\* still returns a live connection.
C9_LoginFailureNotSurfaced ==
    AutoLoginFailed =>
        /\ ~last.gc_raised
        /\ _client # NoClient
        /\ ~is_closed[_client]

\* C10: login() does not raise; without username or password it returns False
\* and sends nothing; otherwise it returns True exactly when its login request
\* was answered with a success status, and False when opening the connection or
\* the request raised.
C10_LoginResult ==
    last.op = "login" =>
        /\ last.exc = NoExc
        /\ last.ret_bool \in {"True", "False"}
        /\ ~HasCredentials => (last.ret_bool = "False" /\ last.trace = <<>>)
        /\ HasCredentials =>
              LET e == last.trace[Len(last.trace)]
              IN  /\ last.trace # <<>>
                  /\ last.ret_bool = "True" <=>
                        /\ e.ev = "req"
                        /\ e.abs
                        /\ e.query = ExpectedLoginQuery
                        /\ ~e.out.raised
                        /\ e.out.status \in 200..299

\* C10, the case: login() on a new session, the automatic login answered, the
\* request of login() itself raising: False.
C10_Witness ==
    /\ last.op = "login"
    /\ Len(last.trace) = 3
    /\ last.trace[3].abs
    /\ last.trace[3].out.raised
    /\ last.ret_bool = "False"

\* A step in which upload_folder is called on a path that is not a directory.
NotADirectoryStep == walk.pc = "idle" /\ walk'.pc # "idle" /\ ~walk'.is_dir

\* A step in which the caller itself calls upload_file: in direct-write mode
\* and without a file name (the steps of a walk change walk).
NoFilenameStep ==
    /\ walk' = walk
    /\ last' # last
    /\ last'.op = "upload_file"
    /\ last'.use_put
    /\ args.filename = <<>>

\* C11: upload_folder on a path that is not a directory raises
\* NotADirectoryError, and upload_file with use_put and no file name raises
\* ValueError, both before any network activity: no connection is opened, no
\* request is sent and the cached handle stays as it was.
C11_PreconditionFirst ==
    [][/\ NotADirectoryStep =>
             /\ walk'.pc = "raised"
             /\ walk'.exc = "NotADirectoryError"
             /\ UNCHANGED <<_client, opened, is_closed, last>>
       /\ NoFilenameStep =>
             /\ last'.exc = "ValueError"
             /\ last'.trace = <<>>
             /\ UNCHANGED <<_client, opened, is_closed>>]_vars

\* C11, the case: on a session that never connected, upload_folder has raised
\* NotADirectoryError and upload_file ValueError, and no handle was built.
C11_Witness ==
    /\ walk.pc = "raised"
    /\ walk.exc = "NotADirectoryError"
    /\ last.op = "upload_file"
    /\ last.exc = "ValueError"
    /\ last.trace = <<>>
    /\ opened = 0

\* The code points of the characters of the file names.
Ord(c) == CASE c = "." -> 46 [] c = "a" -> 97 [] c = "f" -> 102 [] OTHER -> 115

RECURSIVE TextLess(_, _)
\* a < b for strings: by code point, a proper prefix being less
TextLess(a, b) ==
    IF b = <<>> THEN FALSE
    ELSE IF a = <<>> THEN TRUE
    ELSE IF Head(a) # Head(b) THEN Ord(Head(a)) < Ord(Head(b))
    ELSE TextLess(Tail(a), Tail(b))

RECURSIVE PartsLess(_, _)
\* ps < qs for lists of path components
PartsLess(ps, qs) ==
    IF qs = <<>> THEN FALSE
    ELSE IF ps = <<>> THEN TRUE
    ELSE IF Head(ps) # Head(qs) THEN TextLess(Head(ps), Head(qs))
    ELSE PartsLess(Tail(ps), Tail(qs))

\* p < q for pathlib paths, the order sorted() puts them in: component by
\* component.
PathLess(p, q) == PartsLess(PathParts(p), PathParts(q))

\* The files a walk has begun to handle: those done, and the one an exception
\* was raised in.
Handled == IF walk.pc = "raised" /\ walk.is_dir THEN walk.idx + 1 ELSE walk.idx

\* C12: upload_folder handles the files one at a time in sorted path order
\* (the order of pathlib paths: lexical, component by component): the call
\* on_file_progress(i, total, relative path, size) comes before every request
\* for file i, and every request for file i, a 404 retry included, comes
\* before the callback and the requests for file i + 1.
C12_OneAtATime ==
    LET log == walk.log
        files == walk.files
    IN  /\ \A i, j \in 1..Len(files) : i < j => PathLess(files[i], files[j])
        /\ \A k \in 1..Len(log) :
               /\ log[k].idx \in 1..Handled
               /\ log[k].rel = files[log[k].idx]
        /\ \A k, l \in 1..Len(log) : k < l => log[k].idx <= log[l].idx
        /\ \A i \in 1..Handled :
               \E k \in 1..Len(log) : log[k].idx = i /\ log[k].ev = "req"
        /\ walk.on_file_progress =>
               \A i \in 1..Handled : \E k \in 1..Len(log) :
                   /\ log[k] = FileProgressEv(i, Len(files), files[i],
                                              st_size(files[i]))
                   /\ \A l \in 1..Len(log) :
                          (l # k /\ log[l].idx = i) => (l > k /\ log[l].ev = "req")

\* C12, the case: the first of two files needed its 404 retry, and the
\* callback for the second file came right after the retry.
C12_Witness ==
    /\ walk.pc = "returned"
    /\ walk.on_file_progress
    /\ walk.files = << <<"s", "/", "f">>, <<"s", ".", "f">> >>
    /\ \E k \in 1..(Len(walk.log) - 2) :
           /\ walk.log[k].ev = "req" /\ walk.log[k].method = "PUT"
           /\ walk.log[k].idx = 1
           /\ walk.log[k + 1].ev = "req" /\ walk.log[k + 1].method = "PUT"
           /\ walk.log[k + 1].idx = 1
           /\ walk.log[k + 2].ev = "on_file_progress"
           /\ walk.log[k + 2].idx = 2
           /\ walk.log[k + 2].total = 2

\* C13: the only exception upload_folder raises is NotADirectoryError, for a
\* local root that is not a directory; a file that fails never makes it raise.
C13_OnlyPreconditionRaises ==
    walk.pc = "raised" => (~walk.is_dir /\ walk.exc = "NotADirectoryError")

\* The relative paths a walk enumerated.
Enumerated == {walk.files[i] : i \in 1..Len(walk.files)}

\* What a walk has uploaded or reported, as relative paths.
Touched ==
    {walk.log[k].rel : k \in 1..Len(walk.log)}
    \cup {walk.failed[k][1] : k \in 1..Len(walk.failed)}

\* A walk uploads and reports enumerated files only, each failure once.
WalkWithinEnumeration ==
    /\ Touched \subseteq Enumerated
    /\ \A i, j \in 1..Len(walk.files) : walk.files[i] = walk.files[j] => i = j
    /\ \A i, j \in 1..Len(walk.failed) :
           walk.failed[i][1] = walk.failed[j][1] => i = j
    /\ walk.ok + Len(walk.failed) <= Len(walk.files)

\* The enumeration is the files under the root when the walk begins, and it
\* stays what it is while the walk runs, whatever is created meanwhile.
EnumerationFixed ==
    /\ (walk.pc = "idle" /\ walk'.pc = "loop") =>
           {walk'.files[i] : i \in 1..Len(walk'.files)} = local_tree
    /\ walk.pc = "loop" => walk'.files = walk.files

\* C14: the files a call of upload_folder uploads are those of its initial
\* enumeration: a file created under the root afterwards is neither uploaded
\* nor reported, and every relative path of the result is that of one file
\* that was under the root when the walk began.
C14_EnumerationFixed == []WalkWithinEnumeration /\ [][EnumerationFixed]_vars

\* C14, the case: a walk over one file returned, a second file having been
\* created under the root while it ran.
C14_Witness ==
    /\ walk.pc = "returned"
    /\ Len(walk.files) = 1
    /\ walk.idx = 1
    /\ \E p \in local_tree : p \notin Enumerated /\ PathLess(walk.files[1], p)

\* C15: with no location header get_uploaded_file_url does not raise: when
\* the listing of the parent directory raises it returns the URL of the
\* requested name under the folder, and whatever entries the listing holds
\* (with or without a name, with or without a modification time) it returns a
\* URL of the server.
C15_NeverRaises ==
    (res_out.done /\ res_in.location = NoLocation) =>
        /\ res_out.exc = NoExc
        /\ last.exc = NoExc
        /\ res_out.url.base = base_url
        /\ res_out.url.rest # <<>>
        /\ Head(res_out.url.rest) = "/"
        /\ ~res_out.listed =>
               res_out.url = UrlOfName(PathName(res_in.requested_filename))

\* C15, the case: the server lists a renamed copy, the listing request fails,
\* and the URL of the requested name is returned.
C15_Witness ==
    /\ res_out.done
    /\ ~res_out.listed
    /\ \E i \in 1..Len(res_in.list) :
           res_in.list[i].n = <<"f", " ", "(", "9", ")", ".", "t">>
    /\ res_in.requested_filename = <<"s", "/", "f", ".", "t">>
    /\ res_out.url = [base |-> base_url,
                      rest |-> <<"/", "d", "/", "s", "/", "f", ".", "t">>]

\* An address's rest (path, query, fragment) with its path percent-decoded.
PathDecoded(rest) ==
    LET i == FirstOf(rest, {"?", "#"})
    IN  unquote(SubSeq(rest, 1, i - 1)) \o SubSeq(rest, i, Len(rest))

\* The URL the claim gives for a location header.
UrlOfLocation(folder, location) ==
    IF location.abs
    THEN [base |-> location.base, rest |-> PathDecoded(location.rest)]
    ELSE IF Head(location.rest) = "/"
    THEN [base |-> base_url, rest |-> unquote(location.rest)]
    ELSE [base |-> base_url,
          rest |-> <<"/">> \o JoinSlash(PathParts(folder)
                                        \o <<unquote(location.rest)>>)]

\* C16: with a location header get_uploaded_file_url returns, for an absolute
\* address, that address with its path percent-decoded; for a value beginning
\* with "/", the server base followed by the decoded value; for any other
\* value, the URL of the decoded value under the target folder; and it does
\* not list the parent directory.
C16_Location ==
    (res_out.done /\ res_in.location # NoLocation) =>
        /\ ~res_out.listed
        /\ last.trace = <<>>
        /\ res_out.exc = NoExc
        /\ res_out.url = UrlOfLocation(res_in.folder, res_in.location)

\* The characters of a string.
CharsOf(s) == {s[i] : i \in 1..Len(s)}

\* "/%E4%BD%A0%E5%A5%BD"
EncodedUV ==
    <<"/", "%", "E", "4", "%", "B", "D", "%", "A", "0",
      "%", "E", "5", "%", "A", "5", "%", "B", "D">>

\* C17 as stated: _path_for_url encodes the segment "UV" as its UTF-8 escapes,
\* leaves a path of ASCII segments unchanged apart from the single leading
\* "/" (the slashes around it being stripped), and maps "" and "/" to "/".
C17_AsciiUnchanged ==
    path_url # None =>
        /\ path_arg = <<"U", "V">> => path_url = EncodedUV
        /\ (CharsOf(path_arg) \cap {"U", "V"} = {} /\ Strip(path_arg) # <<>>) =>
               path_url = <<"/">> \o Strip(path_arg)
        /\ path_arg \in {<<>>, <<"/">>} => path_url = <<"/">>

\* C17, amended: _path_for_url encodes the segment "UV" as its UTF-8 escapes;
\* its result holds unreserved characters, "/" and %XX escapes only, and
\* decodes to "/" followed by the path without the slashes around it; so a
\* path of unreserved characters is unchanged apart from the leading "/",
\* and a space is encoded as %20; "" and "/" give "/".
C17_PathForUrl ==
    path_url # None =>
        /\ path_arg = <<"U", "V">> => path_url = EncodedUV
        /\ CharsOf(path_url) \cap {" ", "U", "V"} = {}
        /\ unquote(path_url) = <<"/">> \o Strip(path_arg)
        /\ CharsOf(path_arg) \subseteq (Unreserved \cup {"/"}) =>
               path_url = <<"/">> \o Strip(path_arg)
        /\ path_arg = <<"d", " ">> => path_url = <<"/", "d", "%", "2", "0">>
        /\ path_arg \in {<<>>, <<"/">>} => path_url = <<"/">>

\* C17, the case: an ASCII segment with a space and a non-ASCII segment.
C17_Witness ==
    /\ path_arg = <<"d", " ", "/", "U">>
    /\ path_url = <<"/", "d", "%", "2", "0", "/", "%", "E", "4", "%", "B", "D",
                    "%", "A", "0">>

\* The requests of the last call that change the server's state.
Mutating(e) == e.ev = "req" /\ e.method \in {"PUT", "POST", "DELETE"}

\* C18: every state-mutating request (the PUT of a direct-write upload and
\* its retry, the POST of a form upload, the POST of set_config, the DELETE of
\* delete_file) carries the header x-hfs-anti-csrf.
C18_AntiCsrf ==
    \A i \in 1..Len(last.trace) :
        Mutating(last.trace[i]) => HFS_ANTI_CSRF_HEADER \in last.trace[i].headers

\* C18 for the requests other than DELETE.
C18_AntiCsrfButDelete ==
    \A i \in 1..Len(last.trace) :
        (Mutating(last.trace[i]) /\ last.trace[i].method # "DELETE") =>
            HFS_ANTI_CSRF_HEADER \in last.trace[i].headers

\* The last call was an upload in form-encoded mode.
FormUpload == last.op = "upload_file" /\ ~last.use_put

\* A request of the call itself, not the automatic login of _get_client.
IsOwn(e) ==
    e.ev = "req" /\ ~(e.method = "GET" /\ ~e.abs /\ e.path = <<"/">> /\ e.query # <<>>)

\* The requests the last call sent for its own purpose.
Own == SelectSeq(last.trace, IsOwn)

\* C19: in form-encoded mode upload_file sends one POST, to the folder's URL
\* or to the server root when the folder is empty, and nothing else for the
\* upload: no PUT and no second request, whatever the status of the
\* response, which it returns.
C19_FormUploadOnePost ==
    FormUpload =>
        /\ Len(Own) <= 1
        /\ ~last.gc_raised => Len(Own) = 1
        /\ Puts = <<>>
        /\ \A i \in 1..Len(Own) :
               /\ Own[i].method = "POST"
               /\ Own[i].abs
               /\ Own[i].query = <<>>
               /\ Own[i].path = IF Strip(args.folder) = <<>> THEN <<>>
                                ELSE <<"/">> \o Strip(args.folder)
               /\ last.trace[Len(last.trace)] = Own[i]
        /\ last.exc = NoExc =>
               /\ Len(Own) = 1
               /\ last.ret_status = Own[1].out.status

\* C19, the case: a form upload into folder "d" answered 404, which is what
\* the call returned after its one POST.
C19_Witness ==
    /\ FormUpload
    /\ args.folder = <<"d">>
    /\ Len(Own) = 1
    /\ Own[1].method = "POST"
    /\ ~Own[1].out.raised
    /\ Own[1].out.status = 404
    /\ last.ret_status = 404

\* C20: after any sequence of save_config and clear_config calls, load_config
\* returns None when nothing was saved since the last clear, and otherwise a
\* record whose base_url is the last saved base_url without its trailing
\* slashes and whose username and password are those of the last save, absent
\* when not given; clear_config returns True exactly when a saved record
\* existed.
C20_ConfigRoundTrip ==
    /\ cfg_last.op = "load" =>
           IF ~saved.given THEN ~cfg_last.found
           ELSE /\ cfg_last.found
                /\ LET url == ValueOf(cfg_last.data, BaseUrlKey)
                   IN  /\ (url = <<>> \/ url[Len(url)] # "/")
                       /\ \E n \in 0..Len(saved.base_url) :
                              saved.base_url = url \o [k \in 1..n |-> "/"]
                /\ HasKey(cfg_last.data, UsernameKey) <=> saved.username # None
                /\ saved.username # None =>
                       ValueOf(cfg_last.data, UsernameKey) = saved.username
                /\ HasKey(cfg_last.data, PasswordKey) <=> saved.password # None
                /\ saved.password # None =>
                       ValueOf(cfg_last.data, PasswordKey) = saved.password
                /\ \A i \in 1..Len(cfg_last.data) :
                       cfg_last.data[i][1] \in {BaseUrlKey, UsernameKey, PasswordKey}
    /\ cfg_last.op = "clear" =>
           /\ cfg_last.found <=> cfg_last.had_saved
           /\ config_file = NoFile

\* C20, the case: a base_url with trailing slashes and a user name with a
\* quote were saved without a password, and loaded.
C20_Witness ==
    /\ cfg_last.op = "load"
    /\ cfg_last.found
    /\ saved.base_url = <<"h", "/", "/">>
    /\ saved.username = <<"a", "\"">>
    /\ saved.password = None
    /\ cfg_last.data = << <<BaseUrlKey, <<"h">> >>, <<UsernameKey, <<"a", "\"">> >> >>

\* A request path as _path_for_url would have written it: encoding its decoded
\* form gives it back.
PercentEncoded(path) == path = _path_for_url(unquote(path))

\* C23: every PUT of a direct-write upload_file call, the retry after a 404
\* included, goes to a path whose segments are all percent-encoded: no raw
\* non-ASCII character of the folder or the file name is in it.
C23_PutsPercentEncoded ==
    DirectWrite =>
        \A i \in 1..Len(Puts) :
            /\ PercentEncoded(Puts[i].path)
            /\ \A k \in 1..Len(Puts[i].path) : Puts[i].path[k] \notin {"U", "V"}

\* The segments of a request path after its leading "/".
Segments(p) == SplitSlash(Tail(p))

\* C25: the path upload_file composes for the PUT is normalized: one leading
\* "/", then segments none of which is empty (no leading, trailing or doubled
\* separator), whatever the folder and the file name.
C25_TargetNormalized ==
    (DirectWrite /\ Puts # <<>>) =>
        /\ Puts[1].path # <<>>
        /\ Head(Puts[1].path) = "/"
        /\ \A i \in 1..Len(Segments(Puts[1].path)) :
               Segments(Puts[1].path)[i] # <<>>

\* A login request: the automatic one of _get_client or the one of login().
IsLogin(e) ==
    e.ev = "req" /\ e.method = "GET" /\ e.path = <<"/">> /\ e.query = LoginQuery

\* Before the k-th element of the trace, a login request on the same handle
\* received a response.
AnsweredLoginBefore(trace, k) ==
    \E j \in 1..(k - 1) :
        IsLogin(trace[j]) /\ trace[j].h = trace[k].h /\ ~trace[j].out.raised

\* Every request of the trace other than a login has an answered login on its
\* handle before it.
LoginPrecedes(trace) ==
    \A k \in 1..Len(trace) :
        (trace[k].ev = "req" /\ ~IsLogin(trace[k])) => AnsweredLoginBefore(trace, k)

\* A call that constructed its handle sent nothing but logins on it before a
\* login was answered.
FreshHandleLoggedIn ==
    (HasCredentials /\ last.trace # <<>> /\ last.trace[1].ev = "open") =>
        LoginPrecedes(last.trace)

\* The call made after a call whose automatic login raised sends no request
\* other than a login before a login was answered on the handle.
AfterFailedLogin ==
    (HasCredentials /\ last.gc_raised /\ last'.op # "close") =>
        LoginPrecedes(last'.trace)

\* C27: in a session with username and password, every request other than a
\* login that goes out on a handle comes after a login request on that handle
\* that received a response, also in the calls that follow a _get_client call
\* whose login request raised.
C27_LoginPrecedesRequests == []FreshHandleLoggedIn /\ [][AfterFailedLogin]_vars

\* The automatic login request of _get_client: a GET of "/?login=..." relative
\* to the handle's base.
IsAutoLogin(e) == IsLogin(e) /\ ~e.abs

\* C28: a call's trace holds an automatic login request exactly after each
\* handle it constructs with username and password both configured, on that
\* handle, and nowhere else: none when the call found a cached open handle,
\* none in a session without username or password.
C28_LoginOncePerHandle ==
    /\ \A i \in 1..Len(last.trace) :
           /\ last.trace[i].ev = "open" =>
                  (HasCredentials <=>
                       /\ i < Len(last.trace)
                       /\ IsAutoLogin(last.trace[i + 1])
                       /\ last.trace[i + 1].h = last.trace[i].h)
           /\ IsAutoLogin(last.trace[i]) =>
                  /\ HasCredentials
                  /\ i > 1
                  /\ last.trace[i - 1].ev = "open"
                  /\ last.trace[i - 1].h = last.trace[i].h
    /\ Cardinality({i \in 1..Len(last.trace) : last.trace[i].ev = "open"}) <= 1
    /\ last.had_client =>
           \A i \in 1..Len(last.trace) :
               last.trace[i].ev # "open" /\ ~IsAutoLogin(last.trace[i])

\* C28, the case: a session with username and password constructs its second
\* handle and sends the automatic login on it.
C28_Witness ==
    /\ HasCredentials
    /\ opened = 2
    /\ Len(last.trace) >= 2
    /\ last.trace[1].ev = "open"
    /\ IsAutoLogin(last.trace[2])
    /\ last.trace[2].h = 2

\* A walk that raised in its loop has sent nothing for the files after the one
\* it raised on, and has not returned.
AbortedWalk ==
    (walk.pc = "raised" /\ walk.is_dir) =>
        /\ walk.exc = "ConnectError"
        /\ walk.idx < Len(walk.files)
        /\ \A i \in 1..Len(walk.log) : walk.log[i].idx <= walk.idx + 1
        /\ Len(walk.results) = walk.idx

\* A turn of the loop whose upload raised ends the walk with that exception,
\* the counts as they were; nothing happens in a walk that raised.
AbortStep ==
    /\ (walk.pc = "loop" /\ walk' # walk /\ walk'.pc # "returned"
            /\ last'.exc # NoExc) =>
           /\ walk'.pc = "raised"
           /\ walk'.exc = last'.exc
           /\ walk'.idx = walk.idx
           /\ walk'.ok = walk.ok
           /\ walk'.failed = walk.failed
    /\ (walk.pc = "raised" /\ walk.is_dir /\ walk'.pc # "idle") => walk' = walk

\* C26: when the upload of a file raises a connection-level exception inside
\* upload_folder, the exception leaves upload_folder: no request is sent for a
\* later file, and the walk never returns its (ok, failed) pair.
C26_ExceptionAborts == []AbortedWalk /\ [][AbortStep]_vars

\* C26, the case: the upload of the first of two files raised once a request
\* had gone out for it.
C26_Witness ==
    /\ walk.pc = "raised"
    /\ walk.is_dir
    /\ walk.exc = "ConnectError"
    /\ Len(walk.files) = 2
    /\ walk.idx = 0
    /\ \E i \in 1..Len(walk.log) : walk.log[i].ev = "req"

\* The step in which the retry is prepared.
RetryStep == put.attempt = 1 /\ put'.attempt = 2

\* The retry of a streamed upload starts from a rewound source with a chunk
\* sequence not yet started and the source's size for Content-Length; a bytes
\* body and its headers are the first attempt's.
RetryRebuilds ==
    RetryStep =>
        IF body.kind = "iter"
        THEN /\ file_content'.pos = 0
             /\ body' = [kind |-> "iter", len |-> 0, size |-> file_content.size]
             /\ gen' = [pc |-> "created", sent |-> 0]
             /\ headers'.content_length = file_content.size
             /\ yielded' = 0
        ELSE /\ body' = body
             /\ headers' = headers
             /\ file_content' = file_content

\* What the retry's body hands over: the source from its start, all of it once
\* the body is exhausted; for bytes, the same bytes under the same header.
RetrySendsAll ==
    put.attempt = 2 =>
        /\ put.content_length[2] = headers.content_length
        /\ body.kind = "iter" =>
               /\ headers.content_length = file_content.size
               /\ yielded = file_content.pos
               /\ gen.pc = "done" => yielded = file_content.size
        /\ body.kind = "bytes" =>
               /\ put.content_length[2] = put.content_length[1]
               /\ headers.content_length = body.len
               /\ gen.pc = "done" => yielded = body.len

\* C24: when the first PUT of a streamed upload is answered 404 and the retry
\* is made, the source is rewound to 0 and a new chunk sequence and headers are
\* built, so that the retry's body yields all S bytes from the start under
\* Content-Length S, however much the first attempt consumed; a bytes body is
\* sent again unchanged with the same Content-Length.
C24_RetryFromStart == []RetrySendsAll /\ [][RetryRebuilds]_vars

\* C24, the case: the first attempt of a streamed upload had consumed a part of
\* the source, and the retry's body has yielded it all.
C24_Witness ==
    /\ put.attempt = 2
    /\ body.kind = "iter"
    /\ gen.pc = "done"
    /\ put.sent[1] > 0
    /\ put.sent[1] < file_content.size
    /\ yielded = file_content.size

IsReport(e) == e[1] = "cb" \/ e = RetryEv

\* The calls of on_progress, in order, with the start of the retry marked.
Reports == SelectSeq(events, IsReport)

\* C30: in an upload_file call with on_progress, the sent values reported never
\* decrease, except that after the start of the 404 retry of a streamed upload
\* the reports start again with (0, total); each sequence ends with
\* (total, total) once the body is exhausted; total is the source's size; a
\* bytes body, or a source that cannot seek, is never reported on.
C30_ProgressRestarts ==
    /\ \A i \in 1..Len(Reports) :
           Reports[i][1] = "cb" =>
               /\ on_progress
               /\ body.kind = "iter"
               /\ Reports[i][3] = file_content.size
               /\ i = 1 => Reports[i][2] = 0
               /\ i > 1 =>
                      IF Reports[i - 1] = RetryEv
                      THEN Reports[i][2] = 0
                      ELSE Reports[i - 1][2] <= Reports[i][2]
    /\ Cardinality({i \in 1..Len(Reports) : Reports[i] = RetryEv}) <= 1
    /\ (on_progress /\ body.kind = "iter" /\ gen.pc = "done") =>
           /\ Reports # <<>>
           /\ Reports[Len(Reports)] = <<"cb", file_content.size, file_content.size>>
    /\ (body.kind = "bytes" \/ ~on_progress) =>
           \A i \in 1..Len(Reports) : Reports[i] = RetryEv

\* C30, the case: a streamed upload with on_progress whose first attempt had
\* reported a part of the source, and whose retry reported from 0 to the total.
C30_Witness ==
    /\ put.attempt = 2
    /\ on_progress
    /\ body.kind = "iter"
    /\ gen.pc = "done"
    /\ file_content.size >= 2
    /\ \E i \in 2..(Len(Reports) - 1) :
           /\ Reports[i] = RetryEv
           /\ Reports[i - 1][2] > 0
           /\ Reports[i + 1] = <<"cb", 0, file_content.size>>

\* How often the command called close() on its client.
Closes == Cardinality({i \in 1..Len(cli.calls) : cli.calls[i].name = "close"})

\* C21: a command that obtained a client has, when it ends, called close() on
\* it exactly once, whether its call on the client returned with success,
\* returned a failure status or raised; no handle of the client is left open.
C21_ClosedOnce ==
    (cli.pc = "done" /\ cli.has_client) =>
        /\ Closes = 1
        /\ _client = NoClient
        /\ OpenHandles = {}

\* C21, the case: an upload whose upload_file call raised after a handle was
\* opened, ended with status 1 and one close().
C21_Witness ==
    /\ cli.pc = "done"
    /\ cli.has_client
    /\ cli.argv.cmd = "upload"
    /\ cli.argv.path_kind = "file"
    /\ last.exc = "ConnectError"
    /\ opened = 1
    /\ cli.exit_code = 1
    /\ Closes = 1

\* The command was asked to show the uploaded file's URL.
ShowUrl == "--show-url" \in cli.argv.options \/ "-u" \in cli.argv.options

\* The command's upload_file call was made and did not succeed.
UploadFailed ==
    /\ \E i \in 1..Len(cli.calls) : cli.calls[i].name = "upload_file"
    /\ last.exc # NoExc \/ last.ret_status \notin {200, 201}

\* C22: hfs upload of a single file with --show-url / -u, a client being
\* available: unless the upload fails, the command calls get_uploaded_file_url
\* exactly once, with (remote folder, remote file name, response) after the
\* upload_file call, prints the URL and exits with status 0.
C22_ShowUrl ==
    (/\ cli.pc = "done"
     /\ cli.argv.cmd = "upload"
     /\ cli.argv.path_kind = "file"
     /\ ShowUrl
     /\ cli__get_client(GivenAddress(cli.argv)).found) =>
        \/ UploadFailed
        \/ /\ cli.exit_code = 0
           /\ Cardinality({i \in 1..Len(cli.calls) :
                              cli.calls[i].name = "get_uploaded_file_url"}) = 1
           /\ \E i \in 1..Len(cli.calls) : \E j \in (i + 1)..Len(cli.calls) :
                  /\ cli.calls[i].name = "upload_file"
                  /\ cli.calls[j] =
                         CallEv("get_uploaded_file_url",
                                <<_parse_path_or_url(cli.argv.target).path,
                                  remote_name, <<"r">> >>)
           /\ \E k \in 1..Len(cli.stdout) : cli.stdout[k] = "url"

\* The saved configuration holds a username and a password.
SavedCredentials ==
    /\ load_config.found
    /\ cfg_get(load_config, UsernameKey) # None
    /\ cfg_get(load_config, PasswordKey) # None

\* C29: a command given a full URL (or --base-url) whose address is not the
\* saved base_url builds its client for the given address with the saved
\* username and password: the handle it opens is for the given address, and the
\* login request sent on it carries the saved credentials.
C29_SavedCredentialsToGivenAddress ==
    (/\ cli.pc = "done"
     /\ cli.has_client
     /\ GivenAddress(cli.argv) # None
     /\ SavedCredentials
     /\ GivenAddress(cli.argv) # cfg_get(load_config, BaseUrlKey)) =>
        /\ cli.base_url = RStrip(GivenAddress(cli.argv))
        /\ cli.base_url # cfg_get(load_config, BaseUrlKey)
        /\ username = cfg_get(load_config, UsernameKey)
        /\ password = cfg_get(load_config, PasswordKey)
        /\ last.trace # <<>> =>
               /\ Len(last.trace) >= 2
               /\ last.trace[1].ev = "open"
               /\ IsAutoLogin(last.trace[2])
               /\ last.trace[2].h = last.trace[1].h
               /\ last.trace[2].query =
                      urlencode(<<"l", "o", "g", "i", "n">>,
                                cfg_get(load_config, UsernameKey) \o <<":">>
                                    \o cfg_get(load_config, PasswordKey))

\* C29, the case: list given a URL at address o while h is saved with a and x;
\* the login went out on the handle for o.
C29_Witness ==
    /\ cli.pc = "done"
    /\ cli.has_client
    /\ cli.argv.cmd = "list"
    /\ cli.argv.target.abs
    /\ cfg_get(load_config, BaseUrlKey) = <<"h">>
    /\ SavedCredentials
    /\ cli.base_url = <<"o">>
    /\ Len(last.trace) >= 2
    /\ IsAutoLogin(last.trace[2])
    /\ last.trace[2].query = ExpectedLoginQuery

====
